---- MODULE Spec2Model ----
(***************************************************************************)
(* University timetabling core (src/Project): the incremental Constraint   *)
(* State (TimetableState), and the backtracking solvers built on it.       *)
(*                                                                         *)
(* C++ vectors are modelled as TLA+ sequences; the C++ index i is element  *)
(* i + 1 of the sequence.  All ids, days, slots and room indices keep      *)
(* their 0-based C++ values.                                               *)
(***************************************************************************)
EXTENDS Integers, Sequences, FiniteSets, TLC

(***************************************************************************)
(* Bounds of the model.                                                    *)
(***************************************************************************)
\* Time grid.  The source fixes DAYS = 5 and SLOTS_PER_DAY = 6 (model.hpp
\* lines 75-76); but for the instances that are run on the grid of the
\* source, the model explores a smaller grid of the same shape.
SmallDays == 2
SmallSlotsPerDay == 3
\* Place is called while fewer than MaxPlaced placements are committed in
\* the place/undo specification (Spec).
MaxPlaced == 3

VARIABLES
    inst,       \* the ProblemInstance (read-only during a run)
    state,      \* the TimetableState driven by place/undo
    hist,       \* history: the committed placements, oldest first, each with
                \* the TimetableState that held just before its place call
    outcome,    \* what the last call did: "placed", "undone", or the step of
                \* place that returned false
    cfg,        \* the solver object: which class, maxSolutions_, numThreads_,
                \* frontierDepth_
    pc,         \* where the thread that called solve() is
    orderedActivities,  \* orderedActivities_
    placements, \* the placements vector of the thread that called solve()
    stack,      \* its recursion stack (backtrack / buildFrontierDFS frames)
    best,       \* best_
    bestScore,  \* bestScore_
    solutionsFound,     \* solutionsFound_
    frontier,   \* frontier_
    frontierIndex,      \* frontierIndex_
    workers,    \* the worker threads: position, claimed PartialState copy
                \* (state, placements) and recursion stack of dfs
    queueMutex, \* holder of queueMutex_ (0 = free)
    bestMutex,  \* holder of bestMutex_ (0 = free)
    result,     \* what solve() returned
    recorded,   \* history: the placements vectors scored and counted at a
                \* leaf since solve() was called
    batch,      \* batch_ of the OpenCL solver
    buffer,     \* the flat integer buffer of serializePlacements
    lastScore,  \* the value the last call of computeScore returned
    ranks,      \* the MPI processes inside MPIHybridMultiStartSolver::solve
    channel,    \* the MPI messages sent and not received yet
    Sys,        \* S, the SystemState of the warehouse simulation (Lab1)
    movers,     \* its worker threads: position, operation counter and the
                \* arguments of the move call in progress
    ok,         \* what inventory_check returned after the join
    dsm,        \* the DistributedSharedMemory object of every rank (Lab8)
    wire        \* the buffers sent with MPI_Send and not received yet

stateVars == <<state, hist, outcome>>

solverVars == <<cfg, pc, orderedActivities, placements, stack, best, bestScore,
                solutionsFound, frontier, frontierIndex, workers, queueMutex,
                bestMutex, result, recorded>>

labVars == <<Sys, movers, ok, dsm, wire>>

extVars == <<batch, buffer, lastScore, ranks, channel, labVars>>

vars == <<inst, stateVars, solverVars, extVars>>

kNone == -1

\* std::numeric_limits<int>::max()
IntMax == 2147483647

(***************************************************************************)
(* Vector helpers (0-based C++ index into a 1-based sequence).             *)
(***************************************************************************)
At(v, i) == v[i + 1]

Size(v) == Len(v)

Indices(v) == 0 .. (Len(v) - 1)

MinOf(S) == CHOOSE x \in S : \A y \in S : x <= y

Elems(v) == { v[i] : i \in 1 .. Len(v) }

(***************************************************************************)
(* Problem model (model.hpp).                                              *)
(***************************************************************************)
Room(buildingId, type) == [buildingId |-> buildingId, type |-> type]

Activity(id, type, profId, groupIds) ==
    [id |-> id, type |-> type, profId |-> profId, groupIds |-> groupIds]

Placement(activityId, day, slot, roomIndex) ==
    [activityId |-> activityId, day |-> day, slot |-> slot,
     roomIndex |-> roomIndex]

\* Instance of the place/undo specification: two buildings A (0) and C (1)
\* with an asymmetric travel matrix (A -> C takes 15 minutes, C -> A takes 5),
\* a COURSE room in A, a SEMINAR room and a LAB room in C, and a room whose
\* building id is out of range.
StateInstance ==
    [ numBuildings |-> 2,
      rooms        |-> << Room(0, "COURSE"), Room(1, "SEMINAR"), Room(7, "LAB") >>,
      professors   |-> << 10, 11 >>,
      groups       |-> << 20, 21 >>,
      activities   |-> << Activity(0, "COURSE", 11, << 20, 21 >>),
                          Activity(1, "SEMINAR", 10, << 20 >>),
                          Activity(2, "LAB", 10, << 21 >>) >>,
      travelTime   |-> << << 0, 15 >>, << 5, 0 >> >> ]

\* Activities that reference a professor or a group the instance lacks.
UnknownProfActivity == Activity(3, "LAB", 99, << 20 >>)

UnknownGroupActivity == Activity(4, "LAB", 11, << 21, 77 >>)

\* makeDemoSmall: buildings A (0) and B (1), 5 minutes apart; rooms A101
\* (COURSE), A201 (SEMINAR) and B301 (LAB); professors Alice (0) and Bob (1);
\* groups 0 and 1; a course of each professor for both groups, a seminar of
\* Alice and a lab of Bob for each group.
DemoSmallInstance ==
    [ numBuildings |-> 2,
      rooms        |-> << Room(0, "COURSE"), Room(0, "SEMINAR"), Room(1, "LAB") >>,
      professors   |-> << 0, 1 >>,
      groups       |-> << 0, 1 >>,
      activities   |-> << Activity(0, "COURSE", 0, << 0, 1 >>),
                          Activity(1, "COURSE", 1, << 0, 1 >>),
                          Activity(2, "SEMINAR", 0, << 0 >>),
                          Activity(3, "SEMINAR", 0, << 1 >>),
                          Activity(4, "LAB", 1, << 0 >>),
                          Activity(5, "LAB", 1, << 1 >>) >>,
      travelTime   |-> << << 0, 5 >>, << 5, 0 >> >> ]

\* The instances that are run on the time grid of the source.
\* Three buildings with a room each, and one professor teaching the three
\* activities, all of them attended by group 20.
ThreeBuildingInstance ==
    [ numBuildings |-> 3,
      rooms        |-> << Room(0, "COURSE"), Room(1, "SEMINAR"), Room(2, "LAB") >>,
      professors   |-> << 10, 11 >>,
      groups       |-> << 20, 21 >>,
      activities   |-> << Activity(0, "COURSE", 10, << 20, 21 >>),
                          Activity(1, "SEMINAR", 10, << 20 >>),
                          Activity(2, "LAB", 10, << 20 >>) >>,
      travelTime   |-> << << 0, 5, 5 >>, << 5, 0, 5 >>, << 5, 5, 0 >> >> ]

\* The same with the third activity given by the other professor to the
\* other group.
SplitLabInstance ==
    [ThreeBuildingInstance EXCEPT
        !.activities[3] = Activity(2, "LAB", 11, << 21 >>)]

ScoreInstances == { ThreeBuildingInstance, SplitLabInstance }

FullGridInstances == { DemoSmallInstance } \cup ScoreInstances

\* static constexpr int DAYS = 5 and SLOTS_PER_DAY = 6, and the smaller grid
\* of the other instances.
DAYS == IF inst \in FullGridInstances THEN 5 ELSE SmallDays

SLOTS_PER_DAY == IF inst \in FullGridInstances THEN 6 ELSE SmallSlotsPerDay

(***************************************************************************)
(* TimetableState (constraints.hpp / constraints.cpp).                     *)
(***************************************************************************)
Row == [s \in 1 .. SLOTS_PER_DAY |-> kNone]

Grid == [d \in 1 .. DAYS |-> Row]

\* TimetableState::TimetableState
NewTimetableState ==
    [ roomSchedule  |-> [r \in 1 .. Size(inst.rooms) |-> Grid],
      profSchedule  |-> [p \in 1 .. Size(inst.professors) |-> Grid],
      groupSchedule |-> [g \in 1 .. Size(inst.groups) |-> Grid],
      profHours     |-> [p \in 1 .. Size(inst.professors) |-> 0] ]

Cell(schedules, idx, day, slot) == schedules[idx + 1][day + 1][slot + 1]

profIndex(profId) ==
    LET hits == { i \in Indices(inst.professors) : At(inst.professors, i) = profId }
    IN  IF hits = {} THEN -1 ELSE MinOf(hits)

groupIndex(groupId) ==
    LET hits == { i \in Indices(inst.groups) : At(inst.groups, i) = groupId }
    IN  IF hits = {} THEN -1 ELSE MinOf(hits)

roomToBuildingIndex(roomIndex) ==
    IF roomIndex < 0 \/ roomIndex >= Size(inst.rooms) THEN -1
    ELSE LET buildingId == At(inst.rooms, roomIndex).buildingId
         IN  IF buildingId < 0 \/ buildingId >= inst.numBuildings THEN -1
             ELSE buildingId

\* A room check that looks at slot 0 of the day instead of the slot asked for.
checkRoomFreeFirstSlot(st, roomIndex, day, slot) ==
    Cell(st.roomSchedule, roomIndex, day, 0) = kNone

checkRoomFree(st, roomIndex, day, slot) ==
    Cell(st.roomSchedule, roomIndex, day, slot) = kNone

\* A group check that only looks the groups up.
checkGroupsFreeKnownOnly(st, act, day, slot) ==
    \A k \in 1 .. Len(act.groupIds) : groupIndex(act.groupIds[k]) >= 0

checkGroupsFree(st, act, day, slot) ==
    \A k \in 1 .. Len(act.groupIds) :
        LET gIdx == groupIndex(act.groupIds[k])
        IN  /\ gIdx >= 0
            /\ Cell(st.groupSchedule, gIdx, day, slot) = kNone

\* A professor check that only looks the professor up.
checkProfFreeKnownOnly(st, act, day, slot) == profIndex(act.profId) >= 0

checkProfFree(st, act, day, slot) ==
    LET pIdx == profIndex(act.profId)
    IN  /\ pIdx >= 0
        /\ Cell(st.profSchedule, pIdx, day, slot) = kNone

checkCourseAllGroupsFree(st, act, day, slot) == TRUE

\* A neighbour check that reads travelTime[buildingIdx][neighbour] for the
\* previous slot too (the next-slot lookup copied to the previous slot).
checkNeighbourOneDirection(st, schedules, entityScheduleIndex, day, otherSlot, buildingIdx, towards) ==
    LET actOtherId == Cell(schedules, entityScheduleIndex, day, otherSlot)
        found == { r \in Indices(st.roomSchedule) :
                     Cell(st.roomSchedule, r, day, otherSlot) = actOtherId }
    IN  IF actOtherId = kNone \/ found = {} THEN TRUE
        ELSE LET otherBuildingIdx == roomToBuildingIndex(MinOf(found))
             IN  IF otherBuildingIdx < 0 THEN FALSE
                 ELSE ~(At(At(inst.travelTime, buildingIdx), otherBuildingIdx) > 10)

\* One neighbouring slot of the checkEntity lambda: otherSlot is slot - 1
\* (towards = TRUE: travel from the neighbour's building to buildingIdx) or
\* slot + 1 (towards = FALSE: travel from buildingIdx to the neighbour's).
checkNeighbour(st, schedules, entityScheduleIndex, day, otherSlot, buildingIdx, towards) ==
    LET actOtherId == Cell(schedules, entityScheduleIndex, day, otherSlot)
        found == { r \in Indices(st.roomSchedule) :
                     Cell(st.roomSchedule, r, day, otherSlot) = actOtherId }
    IN  IF actOtherId = kNone \/ found = {} THEN TRUE
        ELSE LET otherBuildingIdx == roomToBuildingIndex(MinOf(found))
             IN  IF otherBuildingIdx < 0 THEN FALSE
                 ELSE LET travel ==
                            IF towards
                            THEN At(At(inst.travelTime, otherBuildingIdx), buildingIdx)
                            ELSE At(At(inst.travelTime, buildingIdx), otherBuildingIdx)
                      IN  ~(travel > 10)

\* A checkEntity that checks the previous slot only.
checkEntityPreviousOnly(st, schedules, entityScheduleIndex, day, slot, buildingIdx) ==
    (slot > 0) =>
        checkNeighbour(st, schedules, entityScheduleIndex, day, slot - 1,
                       buildingIdx, TRUE)

checkEntity(st, schedules, entityScheduleIndex, day, slot, buildingIdx) ==
    /\ (slot > 0) =>
          checkNeighbour(st, schedules, entityScheduleIndex, day, slot - 1,
                         buildingIdx, TRUE)
    /\ (slot < SLOTS_PER_DAY - 1) =>
          checkNeighbour(st, schedules, entityScheduleIndex, day, slot + 1,
                         buildingIdx, FALSE)

checkTravelTimes(st, act, day, slot, roomIndex) ==
    LET buildingIdx == roomToBuildingIndex(roomIndex)
        pIdx == profIndex(act.profId)
    IN  /\ buildingIdx >= 0
        /\ pIdx >= 0
        /\ checkEntity(st, st.profSchedule, pIdx, day, slot, buildingIdx)
        /\ \A k \in 1 .. Len(act.groupIds) :
              LET gIdx == groupIndex(act.groupIds[k])
              IN  /\ gIdx >= 0
                  /\ checkEntity(st, st.groupSchedule, gIdx, day, slot, buildingIdx)

\* A local workload check whose limit is below what a professor's grid of the
\* small time grid can hold.
checkProfWorkloadLocalTight(st, pIdx) == ~(At(st.profHours, pIdx) > 10)

checkProfWorkloadLocal(st, pIdx) == ~(At(st.profHours, pIdx) > 80)

\* A final check that enforces the upper bound only.
checkFinalWorkloadUpperOnly(st) ==
    \A i \in Indices(inst.professors) : ~(At(st.profHours, i) > 80)

checkFinalWorkloadBounds(st) ==
    \A i \in Indices(inst.professors) :
        LET hours == At(st.profHours, i)
        IN  ~(hours < 4 \/ hours > 80)

\* Writes value into cell (day, slot) of the grids of every index in idxs.
WriteCells(schedules, idxs, day, slot, value) ==
    [i \in 1 .. Len(schedules) |->
        IF (i - 1) \in idxs
        THEN [schedules[i] EXCEPT ![day + 1][slot + 1] = value]
        ELSE schedules[i]]

KnownGroupIndices(act) ==
    { groupIndex(act.groupIds[k]) : k \in 1 .. Len(act.groupIds) } \ { -1 }

\* A commit that writes the room and group cells but not the professor's.
commitSkipsProfessor(st, act, day, slot, roomIndex, pIdx) ==
    [st EXCEPT
        !.roomSchedule  = WriteCells(@, {roomIndex}, day, slot, act.id),
        !.groupSchedule = WriteCells(@, KnownGroupIndices(act), day, slot, act.id)]

\* The commit of place (constraints.cpp lines 76-84).
commit(st, act, day, slot, roomIndex, pIdx) ==
    [st EXCEPT
        !.roomSchedule  = WriteCells(@, {roomIndex}, day, slot, act.id),
        !.profSchedule  = WriteCells(@, {pIdx}, day, slot, act.id),
        !.groupSchedule = WriteCells(@, KnownGroupIndices(act), day, slot, act.id)]

\* What a place call yields: the value returned (ok), the TimetableState it
\* leaves (st) and, when it returns false, the step that rejected (failedAt).
Rejected(st, step) == [ok |-> FALSE, st |-> st, failedAt |-> step]

Accepted(st) == [ok |-> TRUE, st |-> st, failedAt |-> "none"]

\* The return statement at which a failing checkTravelTimes returns false:
\* the room has no valid building (line 187), the professor's check fails
\* (line 228), or a group's check fails (lines 233-234).
travelRejects(st, act, day, slot, roomIndex) ==
    LET buildingIdx == roomToBuildingIndex(roomIndex)
        pIdx == profIndex(act.profId)
    IN  IF buildingIdx < 0 THEN "building"
        ELSE IF pIdx < 0
                  \/ ~checkEntity(st, st.profSchedule, pIdx, day, slot, buildingIdx)
        THEN "travelProf"
        ELSE "travelGroup"

\* The checks of place before the workload step (constraints.cpp lines
\* 39-67): the first check that makes place return false, "none" when all
\* pass.
placeRejects(st, act, day, slot, roomIndex) ==
    IF day < 0 \/ day >= DAYS \/ slot < 0 \/ slot >= SLOTS_PER_DAY
    THEN "bounds"
    ELSE IF roomIndex < 0 \/ roomIndex >= Size(inst.rooms) THEN "roomIndex"
    ELSE IF profIndex(act.profId) < 0 THEN "unknownProf"
    ELSE IF ~checkRoomFree(st, roomIndex, day, slot) THEN "room"
    ELSE IF ~checkGroupsFree(st, act, day, slot) THEN "groups"
    ELSE IF act.type = "COURSE" /\ ~checkCourseAllGroupsFree(st, act, day, slot)
    THEN "course"
    ELSE IF ~checkProfFree(st, act, day, slot) THEN "prof"
    ELSE IF ~checkTravelTimes(st, act, day, slot, roomIndex)
    THEN travelRejects(st, act, day, slot, roomIndex)
    ELSE "none"

\* A place that writes the room cell before the professor and travel-time
\* checks and does not take it back when they fail.
placeCommitsRoomEarly(st, act, day, slot, roomIndex) ==
    LET step == placeRejects(st, act, day, slot, roomIndex)
        pIdx == profIndex(act.profId)
    IN  IF step \in {"prof", "travelProf", "travelGroup"}
        THEN Rejected([st EXCEPT !.roomSchedule =
                          WriteCells(@, {roomIndex}, day, slot, act.id)], step)
        ELSE IF step # "none" THEN Rejected(st, step)
        ELSE Accepted(commit([st EXCEPT !.profHours[pIdx + 1] = @ + 2],
                             act, day, slot, roomIndex, pIdx))

\* TimetableState::place: the value returned (ok), the TimetableState it
\* leaves (st) and, when it returns false, the step that rejected (failedAt).
place(st, act, day, slot, roomIndex) ==
    LET step == placeRejects(st, act, day, slot, roomIndex)
        pIdx == profIndex(act.profId)
    IN  IF step # "none" THEN Rejected(st, step)
        ELSE LET tentative == [st EXCEPT !.profHours[pIdx + 1] = @ + 2]
             IN  IF ~checkProfWorkloadLocal(tentative, pIdx)
                 THEN Rejected([tentative EXCEPT !.profHours[pIdx + 1] = @ - 2],
                               "workload")
                 ELSE Accepted(commit(tentative, act, day, slot, roomIndex, pIdx))

\* An undo that leaves the group cells occupied.
undoKeepsGroupCells(st, act, day, slot, roomIndex) ==
    LET pIdx == profIndex(act.profId)
    IN  [st EXCEPT
            !.profHours[pIdx + 1] = @ - 2,
            !.roomSchedule  = WriteCells(@, {roomIndex}, day, slot, kNone),
            !.profSchedule  = WriteCells(@, {pIdx}, day, slot, kNone)]

\* An undo that clears the cells but leaves the hour counter.
undoKeepsHours(st, act, day, slot, roomIndex) ==
    LET pIdx == profIndex(act.profId)
    IN  [st EXCEPT
            !.roomSchedule  = WriteCells(@, {roomIndex}, day, slot, kNone),
            !.groupSchedule = WriteCells(@, KnownGroupIndices(act), day, slot, kNone),
            !.profSchedule  = WriteCells(@, {pIdx}, day, slot, kNone)]

\* TimetableState::undo.
undo(st, act, day, slot, roomIndex) ==
    LET pIdx == profIndex(act.profId)
        rooms == IF roomIndex >= 0 /\ roomIndex < Size(st.roomSchedule)
                 THEN {roomIndex} ELSE {}
        profs == IF pIdx >= 0 THEN {pIdx} ELSE {}
    IN  [st EXCEPT
            !.profHours     = [p \in 1 .. Len(@) |->
                                  IF (p - 1) \in profs THEN @[p] - 2 ELSE @[p]],
            !.roomSchedule  = WriteCells(@, rooms, day, slot, kNone),
            !.groupSchedule = WriteCells(@, KnownGroupIndices(act), day, slot, kNone),
            !.profSchedule  = WriteCells(@, profs, day, slot, kNone)]

(***************************************************************************)
(* Spec: a caller drives one TimetableState with arbitrary place calls     *)
(* (any activity that is not committed, in-range and out-of-range day,     *)
(* slot and room index) and undoes committed placements in reverse order.  *)
(***************************************************************************)
CallActivities == Elems(StateInstance.activities)
                    \cup {UnknownProfActivity, UnknownGroupActivity}

\* The (day, slot, roomIndex) arguments of the place calls: every cell of
\* the grid in every room, and every argument out of range on either side.
CallArgs ==
    ((0 .. (DAYS - 1)) \X (0 .. (SLOTS_PER_DAY - 1))
        \X (0 .. (Size(StateInstance.rooms) - 1)))
    \cup { << -1, 0, 0 >>, << DAYS, 0, 0 >>,
           << 0, -1, 0 >>, << 0, SLOTS_PER_DAY, 0 >>,
           << 0, 0, -1 >>, << 0, 0, Size(StateInstance.rooms) >> }

\* std::optional<TimetableSolution>, and the value of result before solve
\* has returned.
NoSolution == [placements |-> << >>, score |-> 0]

NotReturned == [status |-> "running", solution |-> NoSolution]

Nullopt == [status |-> "nullopt", solution |-> NoSolution]

Some(solution) == [status |-> "solution", solution |-> solution]

\* No warehouse simulation runs.
NoLab ==
    /\ Sys = [warehouses |-> << >>, initialTotals |-> << >>]
    /\ movers = << >>
    /\ ok = "unchecked"
    /\ dsm = << >>
    /\ wire = << >>

\* Nothing of the OpenCL and MPI solvers, and no call of a helper function.
NoExt ==
    /\ batch = << >>
    /\ buffer = << >>
    /\ lastScore = 0
    /\ ranks = << >>
    /\ channel = << >>
    /\ NoLab

\* No solver runs in Spec.
NoSolver ==
    /\ cfg = [solver |-> "none", maxSolutions |-> 0, numThreads |-> 0,
              frontierDepth |-> 0]
    /\ pc = "none"
    /\ orderedActivities = << >>
    /\ placements = << >>
    /\ stack = << >>
    /\ best = NoSolution
    /\ bestScore = IntMax
    /\ solutionsFound = 0
    /\ frontier = << >>
    /\ frontierIndex = 0
    /\ workers = << >>
    /\ queueMutex = 0
    /\ bestMutex = 0
    /\ result = NotReturned
    /\ recorded = {}

Init ==
    /\ inst = StateInstance
    /\ state = NewTimetableState
    /\ hist = << >>
    /\ outcome = "new"
    /\ NoSolver
    /\ NoExt

Place(act, day, slot, roomIndex) ==
    /\ cfg.solver = "none"
    /\ Len(hist) < MaxPlaced
    /\ \A i \in 1 .. Len(hist) : hist[i].act.id # act.id
    /\ LET r == place(state, act, day, slot, roomIndex)
       IN  /\ state' = r.st
           /\ outcome' = IF r.ok THEN "placed" ELSE r.failedAt
           /\ hist' = IF r.ok
                      THEN Append(hist, [act |-> act, day |-> day, slot |-> slot,
                                         roomIndex |-> roomIndex, before |-> state])
                      ELSE hist
    /\ UNCHANGED <<inst, extVars, solverVars>>

Undo ==
    /\ cfg.solver = "none"
    /\ hist # << >>
    /\ LET top == hist[Len(hist)]
       IN  state' = undo(state, top.act, top.day, top.slot, top.roomIndex)
    /\ hist' = SubSeq(hist, 1, Len(hist) - 1)
    /\ outcome' = "undone"
    /\ UNCHANGED <<inst, extVars, solverVars>>

Next ==
    \/ \E act \in CallActivities, args \in CallArgs :
          Place(act, args[1], args[2], args[3])
    \/ Undo

Spec == Init /\ [][Next]_vars

(***************************************************************************)
(* Properties of the Constraint State under place/undo (checked on Spec).  *)
(***************************************************************************)
PlaceFailures ==
    {"bounds", "roomIndex", "unknownProf", "room", "groups", "course", "prof",
     "building", "travelProf", "travelGroup", "workload"}

\* C1: a place call that returns false leaves the three occupancy grids and
\* every professor's hour counter exactly as they were before the call, for
\* every activity, day, slot and room index (out-of-range indices and
\* unknown professor or group ids included).
PlaceFailureKeepsState ==
    [][outcome' \in PlaceFailures => state' = state]_vars

\* A place for an unknown professor was rejected while placements are
\* committed.
PlaceFailureWitness ==
    /\ outcome = "unknownProf"
    /\ Len(hist) = 2

\* C2: conservation.  Every undo of the most recent committed placement
\* gives back the TimetableState that held just before that placement's
\* place call, whatever balanced place/undo pairs ran in between; so a
\* sequence of successful places followed by the matching undos in reverse
\* order ends in the state it began in.
UndoRestoresStateBeforePlace ==
    [][(outcome' = "undone" /\ Len(hist') < Len(hist))
          => state' = hist[Len(hist)].before]_vars

\* A second undo in a row: two places have been undone in reverse order.
ConservationWitness ==
    /\ outcome = "undone"
    /\ hist = << >>
    /\ state = NewTimetableState

Committed == { [act |-> hist[i].act, day |-> hist[i].day, slot |-> hist[i].slot,
                roomIndex |-> hist[i].roomIndex] : i \in 1 .. Len(hist) }

ActivityIds == { a.id : a \in CallActivities }

GridDays == 0 .. (DAYS - 1)

GridSlots == 0 .. (SLOTS_PER_DAY - 1)

\* C3: occupancy invariant.  A room, professor or group cell at (day, slot)
\* holds activity id a exactly when a is committed at that (day, slot) in
\* that room, with that professor, or with that group among its attendees;
\* every other cell holds kNone.
OccupancyInvariant ==
    \A day \in GridDays, slot \in GridSlots :
        LET here == { c \in Committed : c.day = day /\ c.slot = slot }
        IN  /\ \A r \in Indices(inst.rooms) :
                  LET cell == Cell(state.roomSchedule, r, day, slot)
                      ids == { c.act.id : c \in { x \in here : x.roomIndex = r } }
                  IN  IF ids = {} THEN cell = kNone ELSE ids = {cell}
            /\ \A p \in Indices(inst.professors) :
                  LET cell == Cell(state.profSchedule, p, day, slot)
                      ids == { c.act.id :
                                 c \in { x \in here : profIndex(x.act.profId) = p } }
                  IN  IF ids = {} THEN cell = kNone ELSE ids = {cell}
            /\ \A g \in Indices(inst.groups) :
                  LET cell == Cell(state.groupSchedule, g, day, slot)
                      ids == { c.act.id :
                                 c \in { x \in here :
                                           At(inst.groups, g) \in Elems(x.act.groupIds) } }
                  IN  IF ids = {} THEN cell = kNone ELSE ids = {cell}

\* Two activities are committed, one of them attended by two groups, after
\* an earlier placement was undone.
OccupancyWitness ==
    /\ Len(hist) = 2
    /\ \E c \in Committed : Len(c.act.groupIds) = 2
    /\ \E g \in Indices(inst.groups), day \in GridDays, slot \in GridSlots :
          Cell(state.groupSchedule, g, day, slot) # kNone

\* C4: workload-counter invariant.  Each professor's accumulated hours equal
\* 2 times the number of currently committed activities of that professor.
WorkloadCounterInvariant ==
    \A p \in Indices(inst.professors) :
        At(state.profHours, p) =
            2 * Cardinality({ i \in 1 .. Len(hist) :
                                profIndex(hist[i].act.profId) = p })

\* A professor with two committed activities has 4 hours.
WorkloadCounterWitness ==
    \E p \in Indices(inst.professors) : At(state.profHours, p) = 4

\* C8: professor double-booking.  When one of two distinct activities of
\* the same professor is committed at a (day, slot), a place call of the
\* other for that (day, slot) returns false, for every room of either and in
\* either call order.
ProfDoubleBookingRejected ==
    [][\A c \in Committed, act \in CallActivities, roomIndex \in Indices(inst.rooms) :
          (/\ act.id # c.act.id
           /\ act.profId = c.act.profId
           /\ Place(act, c.day, c.slot, roomIndex))
             => outcome' \in PlaceFailures]_vars

\* A place call passed the room and group checks and was rejected because
\* the professor is busy in that (day, slot).
ProfDoubleBookingWitness ==
    /\ outcome = "prof"
    /\ hist # << >>

BuildingOf(roomIndex) == At(inst.rooms, roomIndex).buildingId

ValidBuildings == 0 .. (inst.numBuildings - 1)

\* Activity act, of the professor of the committed placement c, is to be
\* placed in roomIndex in a slot next to c's on the same day, and the travel
\* time from the building of the earlier slot to the building of the later
\* slot exceeds 10 minutes.
TravelConflict(c, act, slot, roomIndex) ==
    /\ act.profId = c.act.profId
    /\ BuildingOf(roomIndex) \in ValidBuildings
    /\ \/ /\ c.slot + 1 = slot
          /\ At(At(inst.travelTime, BuildingOf(c.roomIndex)),
                BuildingOf(roomIndex)) > 10
       \/ /\ slot + 1 = c.slot
          /\ At(At(inst.travelTime, BuildingOf(roomIndex)),
                BuildingOf(c.roomIndex)) > 10

\* C9: travel-time rejection is order-independent.  With a professor's two
\* activities in consecutive slots of a day, in buildings whose travel time
\* from the earlier slot's building to the later slot's building exceeds 10
\* (15 from A to C here), the place call made second returns false, also
\* when the travel time in the opposite direction is within the limit.
TravelRejectionOrderIndependent ==
    [][\A c \in Committed, act \in CallActivities, slot \in GridSlots,
          roomIndex \in Indices(inst.rooms) :
          (/\ TravelConflict(c, act, slot, roomIndex)
           /\ Place(act, c.day, slot, roomIndex))
             => outcome' \in PlaceFailures]_vars

\* The later slot was placed first, in building C (room 1); the call for the
\* earlier slot was rejected by the professor's travel check, although
\* travelTime[C][A] = 5.
TravelRejectionWitness ==
    /\ outcome = "travelProf"
    /\ Len(hist) = 1
    /\ hist[1].slot = 2
    /\ BuildingOf(hist[1].roomIndex) = 1
    /\ At(At(inst.travelTime, 1), 0) <= 10
    /\ At(At(inst.travelTime, 0), 1) = 15

(***************************************************************************)
(* Solvers: what the sequential and the threaded solver share.             *)
(***************************************************************************)
RECURSIVE SumFn(_, _)
\* The sum of f[x] over x in D (an accumulation loop "score += ...").
SumFn(f, D) ==
    IF D = {} THEN 0
    ELSE LET x == CHOOSE y \in D : TRUE
         IN  f[x] + SumFn(f, D \ {x})

MaxOf(S) == CHOOSE x \in S : \A y \in S : x >= y

\* The comparator of orderActivities: does a go before b?
activityBefore(a, b) ==
    IF a.type # b.type THEN a.type = "COURSE"
    ELSE Len(a.groupIds) > Len(b.groupIds)

\* std::sort requires a strict weak ordering of the elements it sorts.
IsStrictWeakOrdering(E) ==
    LET equiv(a, b) == ~activityBefore(a, b) /\ ~activityBefore(b, a)
    IN  \A a \in E, b \in E, c \in E :
            /\ ~activityBefore(a, a)
            /\ (activityBefore(a, b) /\ activityBefore(b, c)) => activityBefore(a, c)
            /\ (equiv(a, b) /\ equiv(b, c)) => equiv(a, c)

Rearrangements(v) ==
    { [i \in 1 .. Len(v) |-> v[f[i]]] :
        f \in { g \in [1 .. Len(v) -> 1 .. Len(v)] :
                   \A i \in 1 .. Len(v), j \in 1 .. Len(v) : i # j => g[i] # g[j] } }

\* orderActivities: the orders std::sort may leave in orderedActivities_.
\* std::sort is not stable, so equivalent activities may come out in any
\* order; with a comparator that is no strict weak ordering the behaviour is
\* undefined and any order may come out.
orderActivities(activities) ==
    IF IsStrictWeakOrdering(Elems(activities))
    THEN { v \in Rearrangements(activities) :
             \A i \in 1 .. Len(v), j \in 1 .. Len(v) :
                 i < j => ~activityBefore(v[j], v[i]) }
    ELSE Rearrangements(activities)

\* The placements vector allocated by solve: one unused entry per activity.
UnusedPlacements ==
    [i \in 1 .. Size(inst.activities) |-> Placement(-1, 0, 0, 0)]

\* A gap count that takes every slot from the first to the last.
gapsOfSpan(occupied) ==
    IF occupied = {} \/ MinOf(occupied) = MaxOf(occupied) THEN 0
    ELSE MaxOf(occupied) - MinOf(occupied) + 1

\* Idle slots strictly between the first and the last occupied slot.
gapsOf(occupied) ==
    IF occupied = {} \/ MinOf(occupied) = MaxOf(occupied) THEN 0
    ELSE Cardinality({ sl \in MinOf(occupied) .. MaxOf(occupied) :
                         sl \notin occupied })

\* computeScore (identical in both solvers).
computeScore(pl) ==
    LET used == { i \in 1 .. Len(pl) : ~(pl[i].activityId < 0) }
        actOf(i) == At(inst.activities, pl[i].activityId)
        roomIndexToBuildingIndex(roomIndex) ==
            IF roomIndex < 0 \/ roomIndex >= Size(inst.rooms) THEN -1
            ELSE At(inst.rooms, roomIndex).buildingId
        late == Cardinality({ i \in used : pl[i].slot >= 4 })
        groupDays == Indices(inst.groups) \X (0 .. (DAYS - 1))
        profDays == Indices(inst.professors) \X (0 .. (DAYS - 1))
        groupSlots(g, d) ==
            { pl[i].slot : i \in { j \in used :
                /\ pl[j].day = d
                /\ \E k \in 1 .. Len(actOf(j).groupIds) :
                      groupIndex(actOf(j).groupIds[k]) = g } }
        profSlots(pr, d) ==
            { pl[i].slot : i \in { j \in used :
                /\ pl[j].day = d
                /\ profIndex(actOf(j).profId) = pr } }
        groupBuildings(g, d) ==
            { b \in 0 .. (inst.numBuildings - 1) : \E i \in used :
                /\ pl[i].day = d
                /\ At(inst.groups, g) \in Elems(actOf(i).groupIds)
                /\ roomIndexToBuildingIndex(pl[i].roomIndex) = b }
        profBuildings(pr, d) ==
            { b \in 0 .. (inst.numBuildings - 1) : \E i \in used :
                /\ pl[i].day = d
                /\ actOf(i).profId = At(inst.professors, pr)
                /\ roomIndexToBuildingIndex(pl[i].roomIndex) = b }
        extra(countBuildings) ==
            IF countBuildings > 2 THEN countBuildings - 2 ELSE 0
    IN  late
        + SumFn([x \in groupDays |-> gapsOf(groupSlots(x[1], x[2]))], groupDays)
        + SumFn([x \in profDays |-> gapsOf(profSlots(x[1], x[2]))], profDays)
        + SumFn([x \in groupDays |->
                    extra(Cardinality(groupBuildings(x[1], x[2])))], groupDays)
        + SumFn([x \in profDays |->
                    extra(Cardinality(profBuildings(x[1], x[2])))], profDays)

\* A filter that lets every room through.
roomTypeAny(act, room) == TRUE

\* The quick filter of the search loops: the three "continue" statements.
roomTypeMatches(act, room) ==
    ~ \/ (act.type = "COURSE" /\ room.type # "COURSE")
      \/ (act.type = "SEMINAR" /\ room.type # "SEMINAR")
      \/ (act.type = "LAB" /\ room.type # "LAB")

\* A frame of the recursive search (backtrack, buildFrontierDFS, dfs): its
\* depth, where it is ("enter": at its first statement; "undo": its place
\* succeeded and the recursive call is running or has returned; "lock": a
\* leaf of dfs waiting for bestMutex_; "record": a leaf of dfs holding
\* bestMutex_), the loop variables of the placement it made and the local
\* variable score of a leaf.
Frame(depth) ==
    [depth |-> depth, at |-> "enter", day |-> 0, slot |-> 0, roomIdx |-> 0,
     score |-> 0]

Top(stk) == stk[Len(stk)]

Pop(stk) == SubSeq(stk, 1, Len(stk) - 1)

\* The loop variables after one more iteration of the innermost loop.
nextCandidate(day, slot, roomIdx) ==
    IF roomIdx + 1 < Size(inst.rooms)
    THEN [day |-> day, slot |-> slot, roomIdx |-> roomIdx + 1]
    ELSE IF slot + 1 < SLOTS_PER_DAY
    THEN [day |-> day, slot |-> slot + 1, roomIdx |-> 0]
    ELSE [day |-> day + 1, slot |-> 0, roomIdx |-> 0]

RECURSIVE firstFeasible(_, _, _, _, _)
\* Runs the three nested loops from (day, slot, roomIdx) to the first
\* candidate that passes the room-type filter and on which place returns
\* true; found = FALSE when the loops end first.
firstFeasible(st, act, day, slot, roomIdx) ==
    IF day >= DAYS \/ Size(inst.rooms) = 0
    THEN [found |-> FALSE, day |-> day, slot |-> slot, roomIdx |-> roomIdx]
    ELSE IF /\ roomTypeMatches(act, At(inst.rooms, roomIdx))
            /\ place(st, act, day, slot, roomIdx).ok
    THEN [found |-> TRUE, day |-> day, slot |-> slot, roomIdx |-> roomIdx]
    ELSE LET n == nextCandidate(day, slot, roomIdx)
         IN  firstFeasible(st, act, n.day, n.slot, n.roomIdx)

\* The end of a round of the loops of frame top for activity act, on the
\* state st0 the round started from: c is the candidate firstFeasible
\* stopped at.  place succeeded there: store the placement and call the next
\* depth; or the loops ended: return.
afterCandidate(ctx, top, act, st0, c) ==
    IF c.found
    THEN [state |-> place(st0, act, c.day, c.slot, c.roomIdx).st,
          placements |-> [ctx.placements EXCEPT ![act.id + 1] =
                             Placement(act.id, c.day, c.slot, c.roomIdx)],
          stack |-> Append(Pop(ctx.stack),
                           [top EXCEPT !.at = "undo", !.day = c.day,
                                       !.slot = c.slot, !.roomIdx = c.roomIdx])
                    \o << Frame(top.depth + 1) >>]
    ELSE [state |-> st0, placements |-> ctx.placements,
          stack |-> Pop(ctx.stack)]

\* The loops of frame top from candidate from on, on state st0.
loopsFrom(ctx, top, act, st0, from) ==
    afterCandidate(ctx, top, act, st0,
                   firstFeasible(st0, act, from.day, from.slot, from.roomIdx))

searchLoopAtWithoutUndo(ctx, top, act) ==
    IF top.at = "undo"
    THEN loopsFrom(ctx, top, act,
                   ctx.state,
                   nextCandidate(top.day, top.slot, top.roomIdx))
    ELSE loopsFrom(ctx, top, act, ctx.state,
                   [day |-> 0, slot |-> 0, roomIdx |-> 0])

\* A round of the loops of frame top for activity act: from the first
\* candidate, or, when the frame's recursive call has returned, after the
\* undo and from the candidate after the one placed.
searchLoopAt(ctx, top, act) ==
    IF top.at = "undo"
    THEN loopsFrom(ctx, top, act,
                   undo(ctx.state, act, top.day, top.slot, top.roomIdx),
                   nextCandidate(top.day, top.slot, top.roomIdx))
    ELSE loopsFrom(ctx, top, act, ctx.state,
                   [day |-> 0, slot |-> 0, roomIdx |-> 0])

\* One round of the search loop of the frame on top of the stack of search
\* context ctx = [state, placements, stack]: when the frame's recursive call
\* has returned, undo its placement and go on with the next candidate; run
\* the loops to the next candidate that place accepts, store its placement
\* under the activity's id and call the next depth; return when the loops
\* end.
searchLoop(ctx) ==
    searchLoopAt(ctx, Top(ctx.stack),
                 At(orderedActivities, Top(ctx.stack).depth))

\* The update of the best solution at a leaf ("if (score < bestScore_)").
budgetNeverExhausted(found) == FALSE

budgetExhaustedPastLimit(found) == found > cfg.maxSolutions

\* The early exit test of backtrack and of dfs: solutionsFound_ >=
\* maxSolutions_, on the value of solutionsFound_ the caller has read.
budgetExhausted(found) == found >= cfg.maxSolutions

\* A leaf that keeps the latest solution instead of the best.
recordBestLatest(pl, score) ==
    /\ bestScore' = score
    /\ best' = [placements |-> pl, score |-> score]
    /\ solutionsFound' = solutionsFound + 1
    /\ recorded' = recorded \cup {pl}

recordBest(pl, score) ==
    /\ bestScore' = IF score < bestScore THEN score ELSE bestScore
    /\ best' = IF score < bestScore
               THEN [placements |-> pl, score |-> score]
               ELSE best
    /\ solutionsFound' = solutionsFound + 1
    /\ recorded' = recorded \cup {pl}

(***************************************************************************)
(* The instances and solver objects of SolverSpec.                         *)
(***************************************************************************)
\* Two buildings A (0) and C (1), travelTime[A][C] = 15 and
\* travelTime[C][A] = 5; the COURSE room is in C and the SEMINAR room in A.
\* Two professors with two activities each; activities 0 and 1 compete for
\* the COURSE room only, 0 and 2 for professor 10 only, 0 and 3 for the
\* groups 20 and 21 only; activities 1 and 2 share nothing.
TwoProfInstance ==
    [ numBuildings |-> 2,
      rooms        |-> << Room(1, "COURSE"), Room(0, "SEMINAR") >>,
      professors   |-> << 10, 11 >>,
      groups       |-> << 20, 21, 22, 23 >>,
      activities   |-> << Activity(0, "COURSE", 10, << 20, 21 >>),
                          Activity(1, "COURSE", 11, << 22 >>),
                          Activity(2, "SEMINAR", 10, << 23 >>),
                          Activity(3, "SEMINAR", 11, << 20, 21 >>) >>,
      travelTime   |-> << << 0, 15 >>, << 5, 0 >> >> ]

\* Each professor teaches a single activity (2 hours).
StarvedInstance ==
    [ numBuildings |-> 2,
      rooms        |-> << Room(1, "COURSE"), Room(0, "SEMINAR") >>,
      professors   |-> << 10, 11 >>,
      groups       |-> << 20 >>,
      activities   |-> << Activity(0, "COURSE", 10, << 20 >>),
                          Activity(1, "SEMINAR", 11, << 20 >>) >>,
      travelTime   |-> << << 0, 15 >>, << 5, 0 >> >> ]

\* TwoProfInstance with the travel times the other way round:
\* travelTime[A][C] = 5 and travelTime[C][A] = 15.
ReversedTravelInstance ==
    [TwoProfInstance EXCEPT !.travelTime = << << 0, 5 >>, << 15, 0 >> >>]

\* One professor with a course and a seminar for the same group, one room of
\* each type in one building: every pair of distinct (day, slot) cells is a
\* feasible complete assignment.
OneProfInstance ==
    [ numBuildings |-> 1,
      rooms        |-> << Room(0, "COURSE"), Room(0, "SEMINAR") >>,
      professors   |-> << 10 >>,
      groups       |-> << 20 >>,
      activities   |-> << Activity(0, "COURSE", 10, << 20 >>),
                          Activity(1, "SEMINAR", 10, << 20 >>) >>,
      travelTime   |-> << << 0 >> >> ]

SolverInstances ==
    { TwoProfInstance, ReversedTravelInstance, StarvedInstance, OneProfInstance }

\* Largest maxSolutions, numThreads and frontierDepth of a solver object.
MaxSolutions == 2

MaxThreads == 2

MaxFrontierDepth == 1

\* Largest product of the number of activities and the number of worker
\* threads of a run; a run with the ample budget, which searches the whole
\* tree, counts double.
MaxSearchWork == 8

\* A maxSolutions no search of OneProfInstance uses up: the number of pairs
\* of (day, slot) cells.
AmpleSolutions == (DAYS * SLOTS_PER_DAY) * (DAYS * SLOTS_PER_DAY)

\* The values of maxSolutions of the solver objects.
Budgets == (1 .. MaxSolutions) \cup {AmpleSolutions}

SolverObject(solver, maxSolutions, numThreads, frontierDepth) ==
    [solver |-> solver, maxSolutions |-> maxSolutions,
     numThreads |-> numThreads, frontierDepth |-> frontierDepth]

SolverObjects ==
    { SolverObject("sequential", m, 0, 0) : m \in Budgets }
    \cup { SolverObject("threaded", m, t, f) :
             m \in Budgets, t \in 1 .. MaxThreads,
             f \in 0 .. MaxFrontierDepth }

SolverInit ==
    /\ inst \in SolverInstances
    /\ cfg \in SolverObjects
    /\ cfg.maxSolutions > MaxSolutions <=> inst = OneProfInstance
    /\ Size(inst.activities) * cfg.numThreads
          * (IF cfg.maxSolutions > MaxSolutions THEN 2 ELSE 1) <= MaxSearchWork
    /\ pc = "ready"
    /\ state = NewTimetableState
    /\ hist = << >>
    /\ outcome = "new"
    /\ orderedActivities = << >>
    /\ placements = << >>
    /\ stack = << >>
    /\ best = NoSolution
    /\ bestScore = IntMax
    /\ solutionsFound = 0
    /\ frontier = << >>
    /\ frontierIndex = 0
    /\ workers = << >>
    /\ queueMutex = 0
    /\ bestMutex = 0
    /\ result = NotReturned
    /\ recorded = {}
    /\ NoExt

N == Size(orderedActivities)

MainContext == [state |-> state, placements |-> placements, stack |-> stack]

\* The solver's own search goes on in context n.
SetMainContext(n) ==
    /\ state' = n.state
    /\ placements' = n.placements
    /\ stack' = n.stack

(***************************************************************************)
(* SequentialBacktrackingSolver.                                           *)
(***************************************************************************)
\* solve up to the call backtrack(0, currentPlacements).
SeqSolve ==
    /\ cfg.solver = "sequential"
    /\ pc = "ready"
    /\ orderedActivities' \in orderActivities(inst.activities)
    /\ state' = NewTimetableState
    /\ best' = [best EXCEPT !.placements = << >>]
    /\ bestScore' = IntMax
    /\ solutionsFound' = 0
    /\ recorded' = {}
    /\ placements' = UnusedPlacements
    /\ stack' = << Frame(0) >>
    /\ pc' = "search"
    /\ UNCHANGED <<inst, extVars, hist, outcome, cfg, frontier, frontierIndex, workers,
                   queueMutex, bestMutex, result>>

\* backtrack from its first statement: the budget check, the leaf, or the
\* first round of the loops.
BacktrackEnter ==
    /\ pc = "search"
    /\ stack # << >>
    /\ Top(stack).at = "enter"
    /\ IF budgetExhausted(solutionsFound)
       THEN /\ stack' = Pop(stack)
            /\ UNCHANGED <<state, placements, best, bestScore, solutionsFound, recorded>>
       ELSE IF Top(stack).depth = N
       THEN /\ stack' = Pop(stack)
            /\ IF ~checkFinalWorkloadBounds(state)
               THEN UNCHANGED <<best, bestScore, solutionsFound, recorded>>
               ELSE recordBest(placements, computeScore(placements))
            /\ UNCHANGED <<state, placements>>
       ELSE /\ SetMainContext(searchLoop(MainContext))
            /\ UNCHANGED <<best, bestScore, solutionsFound, recorded>>
    /\ UNCHANGED <<inst, extVars, hist, outcome, cfg, pc, orderedActivities, frontier,
                   frontierIndex, workers, queueMutex, bestMutex, result>>

\* backtrack when its recursive call has returned: undo, next candidates.
BacktrackLoop ==
    /\ pc = "search"
    /\ stack # << >>
    /\ Top(stack).at = "undo"
    /\ SetMainContext(searchLoop(MainContext))
    /\ UNCHANGED <<inst, extVars, hist, outcome, cfg, pc, orderedActivities, best,
                   bestScore, solutionsFound, recorded, frontier, frontierIndex, workers,
                   queueMutex, bestMutex, result>>

SeqReturnAlwaysBest ==
    /\ pc = "search"
    /\ stack = << >>
    /\ result' = Some(best)
    /\ pc' = "done"
    /\ UNCHANGED <<inst, extVars, stateVars, cfg, orderedActivities, placements, stack,
                   best, bestScore, solutionsFound, recorded, frontier, frontierIndex,
                   workers, queueMutex, bestMutex>>

\* solve after backtrack(0, ...) has returned.
SeqReturn ==
    /\ pc = "search"
    /\ stack = << >>
    /\ result' = IF solutionsFound = 0 THEN Nullopt ELSE Some(best)
    /\ pc' = "done"
    /\ UNCHANGED <<inst, extVars, stateVars, cfg, orderedActivities, placements, stack,
                   best, bestScore, solutionsFound, recorded, frontier, frontierIndex,
                   workers, queueMutex, bestMutex>>

SeqNext == SeqSolve \/ BacktrackEnter \/ BacktrackLoop \/ SeqReturn

(***************************************************************************)
(* ThreadedBacktrackingSolver.                                             *)
(***************************************************************************)
WorkersOneMore == 1 .. cfg.numThreads + 1

\* The worker threads solve starts: numThreads_ of them.
Workers == 1 .. cfg.numThreads

\* std::unique_ptr<PartialState>: a sequence holding the owned PartialState,
\* empty for the null pointer that std::move leaves in a claimed slot.
Owning(ps) == << ps >>

NullPtr == << >>

PartialState(st, pl, depth) == [state |-> st, placements |-> pl, depth |-> depth]

\* A worker thread that has not claimed anything yet.
NewWorker ==
    [at |-> "idle", state |-> NewTimetableState, placements |-> << >>,
     stack |-> << >>]

\* solve up to the call buildFrontierDFS(state, placements, 0).
ThrSolve ==
    /\ cfg.solver = "threaded"
    /\ pc = "ready"
    /\ orderedActivities' \in orderActivities(inst.activities)
    /\ best' = [best EXCEPT !.placements = << >>]
    /\ bestScore' = IntMax
    /\ solutionsFound' = 0
    /\ recorded' = {}
    /\ frontier' = << >>
    /\ frontierIndex' = 0
    /\ state' = NewTimetableState
    /\ placements' = UnusedPlacements
    /\ stack' = << Frame(0) >>
    /\ pc' = "frontier"
    /\ UNCHANGED <<inst, extVars, hist, outcome, cfg, workers, queueMutex, bestMutex,
                   result>>

\* buildFrontierDFS from its first statement: store the frontier node, or
\* run the first round of the loops.
BuildFrontierEnter ==
    /\ pc = "frontier"
    /\ stack # << >>
    /\ Top(stack).at = "enter"
    /\ IF Top(stack).depth = cfg.frontierDepth \/ Top(stack).depth = N
       THEN /\ frontier' = Append(frontier,
                                  Owning(PartialState(state, placements,
                                                      Top(stack).depth)))
            /\ stack' = Pop(stack)
            /\ UNCHANGED <<state, placements>>
       ELSE /\ SetMainContext(searchLoop(MainContext))
            /\ UNCHANGED frontier
    /\ UNCHANGED <<inst, extVars, hist, outcome, cfg, pc, orderedActivities, best,
                   bestScore, solutionsFound, recorded, frontierIndex, workers,
                   queueMutex, bestMutex, result>>

\* buildFrontierDFS when its recursive call has returned.
BuildFrontierLoop ==
    /\ pc = "frontier"
    /\ stack # << >>
    /\ Top(stack).at = "undo"
    /\ SetMainContext(searchLoop(MainContext))
    /\ UNCHANGED <<inst, extVars, hist, outcome, cfg, pc, orderedActivities, best,
                   bestScore, solutionsFound, recorded, frontier, frontierIndex, workers,
                   queueMutex, bestMutex, result>>

\* A launch of one worker thread per frontier node.
LaunchWorkersPerNode ==
    /\ pc = "frontier"
    /\ stack = << >>
    /\ IF frontier = << >>
       THEN /\ result' = Nullopt
            /\ pc' = "done"
            /\ UNCHANGED workers
       ELSE /\ workers' = [w \in 1 .. Len(frontier) |-> NewWorker]
            /\ pc' = "join"
            /\ UNCHANGED result
    /\ UNCHANGED <<inst, extVars, stateVars, cfg, orderedActivities, placements, stack,
                   best, bestScore, solutionsFound, recorded, frontier, frontierIndex,
                   queueMutex, bestMutex>>

\* solve after buildFrontierSequential: return nullopt on an empty
\* frontier, else start the worker threads.
LaunchWorkers ==
    /\ pc = "frontier"
    /\ stack = << >>
    /\ IF frontier = << >>
       THEN /\ result' = Nullopt
            /\ pc' = "done"
            /\ UNCHANGED workers
       ELSE /\ workers' = [w \in Workers |-> NewWorker]
            /\ pc' = "join"
            /\ UNCHANGED result
    /\ UNCHANGED <<inst, extVars, stateVars, cfg, orderedActivities, placements, stack,
                   best, bestScore, solutionsFound, recorded, frontier, frontierIndex,
                   queueMutex, bestMutex>>

\* workerLoop: lock_guard lock(queueMutex_).
WorkerLockQueue(w) ==
    /\ pc = "join"
    /\ workers[w].at = "idle"
    /\ queueMutex = 0
    /\ queueMutex' = w
    /\ workers' = [workers EXCEPT ![w].at = "claim"]
    /\ UNCHANGED <<inst, extVars, stateVars, cfg, pc, orderedActivities, placements,
                   stack, best, bestScore, solutionsFound, recorded, frontier,
                   frontierIndex, bestMutex, result>>

WorkerClaimSkipsNode(w) ==
    /\ pc = "join"
    /\ workers[w].at = "claim"
    /\ queueMutex = w
    /\ queueMutex' = 0
    /\ IF frontierIndex >= Size(frontier)
       THEN /\ workers' = [workers EXCEPT ![w].at = "exit"]
            /\ UNCHANGED <<frontier, frontierIndex>>
       ELSE LET ps == At(frontier, frontierIndex)
            IN  /\ frontier' = [frontier EXCEPT ![frontierIndex + 1] = NullPtr]
                /\ frontierIndex' = frontierIndex + 2
                /\ workers' = [workers EXCEPT ![w] =
                      IF ps = NullPtr THEN [@ EXCEPT !.at = "idle"]
                      ELSE [at |-> "dfs", state |-> ps[1].state,
                            placements |-> ps[1].placements,
                            stack |-> << Frame(ps[1].depth) >>]]
    /\ UNCHANGED <<inst, extVars, stateVars, cfg, pc, orderedActivities, placements,
                   stack, best, bestScore, solutionsFound, recorded, bestMutex, result>>

\* workerLoop under queueMutex_: leave the loop when the frontier is used
\* up, else claim the next node; then release the mutex and, with a node,
\* enter backtrackFromPartial (copy state, placements and depth, call dfs).
WorkerClaim(w) ==
    /\ pc = "join"
    /\ workers[w].at = "claim"
    /\ queueMutex = w
    /\ queueMutex' = 0
    /\ IF frontierIndex >= Size(frontier)
       THEN /\ workers' = [workers EXCEPT ![w].at = "exit"]
            /\ UNCHANGED <<frontier, frontierIndex>>
       ELSE LET ps == At(frontier, frontierIndex)
            IN  /\ frontier' = [frontier EXCEPT ![frontierIndex + 1] = NullPtr]
                /\ frontierIndex' = frontierIndex + 1
                /\ workers' = [workers EXCEPT ![w] =
                      IF ps = NullPtr THEN [@ EXCEPT !.at = "idle"]
                      ELSE [at |-> "dfs", state |-> ps[1].state,
                            placements |-> ps[1].placements,
                            stack |-> << Frame(ps[1].depth) >>]]
    /\ UNCHANGED <<inst, extVars, stateVars, cfg, pc, orderedActivities, placements,
                   stack, best, bestScore, solutionsFound, recorded, bestMutex, result>>

RECURSIVE resumeLoops(_)
\* A worker's run, on its own state and placements only, from the return of
\* a dfs call to the next call of dfs or back to workerLoop: the caller
\* undoes its placement and goes on with its loops, and returns in turn
\* when they end.
resumeLoops(ctx) ==
    IF ctx.stack # << >> /\ Top(ctx.stack).at = "undo"
    THEN resumeLoops(searchLoop(ctx))
    ELSE ctx

\* The worker with search context ctx: in dfs, or back in workerLoop when
\* the outermost dfs has returned.
workerAt(ctx) ==
    [at |-> IF ctx.stack = << >> THEN "idle" ELSE "dfs",
     state |-> ctx.state, placements |-> ctx.placements, stack |-> ctx.stack]

\* The worker after the running dfs returned.
returned(wk) ==
    workerAt(resumeLoops([state |-> wk.state, placements |-> wk.placements,
                          stack |-> Pop(wk.stack)]))

WorkerContext(w) ==
    [state |-> workers[w].state, placements |-> workers[w].placements,
     stack |-> workers[w].stack]

\* The worker after the loops of the dfs just entered reached a recursive
\* call, or ended.
afterLoop(w) == workerAt(resumeLoops(searchLoop(WorkerContext(w))))

DfsEnterOnSolverState(w) ==
    /\ pc = "join"
    /\ workers[w].at = "dfs"
    /\ Top(workers[w].stack).at = "enter"
    /\ LET wk == workers[w]
           top == Top(wk.stack)
       IN  workers' = [workers EXCEPT ![w] =
             IF budgetExhausted(solutionsFound) THEN returned(wk)
             ELSE IF top.depth = N
             THEN IF ~checkFinalWorkloadBounds(wk.state) THEN returned(wk)
                  ELSE [wk EXCEPT !.stack =
                          Append(Pop(wk.stack),
                                 [top EXCEPT !.at = "lock",
                                             !.score = computeScore(wk.placements)])]
             ELSE afterLoop(w)]
    /\ state' = workers'[w].state
    /\ placements' = workers'[w].placements
    /\ UNCHANGED <<inst, extVars, hist, outcome, cfg, pc, orderedActivities, stack,
                   best, bestScore, solutionsFound, recorded, frontier,
                   frontierIndex, queueMutex, bestMutex, result>>

\* dfs from its first statement: the budget check (solutionsFound_ is read
\* without bestMutex_), then the leaf up to computeScore, or the loops up to
\* the next call of dfs; what the worker does between two reads of
\* solutionsFound_ touches its own state and placements only.
DfsEnter(w) ==
    /\ pc = "join"
    /\ workers[w].at = "dfs"
    /\ Top(workers[w].stack).at = "enter"
    /\ LET wk == workers[w]
           top == Top(wk.stack)
       IN  workers' = [workers EXCEPT ![w] =
             IF budgetExhausted(solutionsFound) THEN returned(wk)
             ELSE IF top.depth = N
             THEN IF ~checkFinalWorkloadBounds(wk.state) THEN returned(wk)
                  ELSE [wk EXCEPT !.stack =
                          Append(Pop(wk.stack),
                                 [top EXCEPT !.at = "lock",
                                             !.score = computeScore(wk.placements)])]
             ELSE afterLoop(w)]
    /\ UNCHANGED <<inst, extVars, stateVars, cfg, pc, orderedActivities, placements,
                   stack, best, bestScore, solutionsFound, recorded, frontier,
                   frontierIndex, queueMutex, bestMutex, result>>

\* dfs at a leaf: lock_guard lock(bestMutex_).
DfsLockBest(w) ==
    /\ pc = "join"
    /\ workers[w].at = "dfs"
    /\ Top(workers[w].stack).at = "lock"
    /\ bestMutex = 0
    /\ bestMutex' = w
    /\ workers' = [workers EXCEPT ![w].stack =
                       Append(Pop(workers[w].stack),
                              [Top(workers[w].stack) EXCEPT !.at = "record"])]
    /\ UNCHANGED <<inst, extVars, stateVars, cfg, pc, orderedActivities, placements,
                   stack, best, bestScore, solutionsFound, recorded, frontier,
                   frontierIndex, queueMutex, result>>

\* A leaf that returns without releasing bestMutex_.
DfsRecordKeepsMutex(w) ==
    /\ pc = "join"
    /\ workers[w].at = "dfs"
    /\ Top(workers[w].stack).at = "record"
    /\ bestMutex = w
    /\ recordBest(workers[w].placements, Top(workers[w].stack).score)
    /\ workers' = [workers EXCEPT ![w] = returned(workers[w])]
    /\ UNCHANGED <<inst, extVars, stateVars, cfg, pc, orderedActivities, placements,
                   stack, frontier, frontierIndex, queueMutex, bestMutex, result>>

\* dfs at a leaf under bestMutex_: update the best solution, count the
\* solution, release the mutex and return.
DfsRecord(w) ==
    /\ pc = "join"
    /\ workers[w].at = "dfs"
    /\ Top(workers[w].stack).at = "record"
    /\ bestMutex = w
    /\ recordBest(workers[w].placements, Top(workers[w].stack).score)
    /\ bestMutex' = 0
    /\ workers' = [workers EXCEPT ![w] = returned(workers[w])]
    /\ UNCHANGED <<inst, extVars, stateVars, cfg, pc, orderedActivities, placements,
                   stack, frontier, frontierIndex, queueMutex, result>>

JoinReturnWithoutJoin ==
    /\ pc = "join"
    /\ result' = IF solutionsFound = 0 THEN Nullopt ELSE Some(best)
    /\ pc' = "done"
    /\ UNCHANGED <<inst, extVars, stateVars, cfg, orderedActivities, placements, stack,
                   best, bestScore, solutionsFound, recorded, frontier, frontierIndex,
                   workers, queueMutex, bestMutex>>

\* solve after joining every worker.
JoinReturn ==
    /\ pc = "join"
    /\ \A w \in Workers : workers[w].at = "exit"
    /\ result' = IF solutionsFound = 0 THEN Nullopt ELSE Some(best)
    /\ pc' = "done"
    /\ UNCHANGED <<inst, extVars, stateVars, cfg, orderedActivities, placements, stack,
                   best, bestScore, solutionsFound, recorded, frontier, frontierIndex,
                   workers, queueMutex, bestMutex>>

ThrNext ==
    \/ ThrSolve
    \/ BuildFrontierEnter
    \/ BuildFrontierLoop
    \/ LaunchWorkers
    \/ \E w \in Workers :
          \/ WorkerLockQueue(w)
          \/ WorkerClaim(w)
          \/ DfsEnter(w)
          \/ DfsLockBest(w)
          \/ DfsRecord(w)
    \/ JoinReturn

(***************************************************************************)
(* SolverSpec: one solve() of a sequential or a threaded solver object.    *)
(***************************************************************************)
SolverNext == SeqNext \/ ThrNext

SolverSpec == SolverInit /\ [][SolverNext]_vars

(***************************************************************************)
(* ProgramSpec: the Constraint State driven directly (Spec) or by one      *)
(* solve() of a solver (SolverSpec).                                       *)
(***************************************************************************)
ProgramSpec == (Init \/ SolverInit) /\ [][Next \/ SolverNext]_vars

(***************************************************************************)
(* OpenCLExhaustiveSolver: the CPU search that collects complete           *)
(* timetables in batches, and the batch scorer (the eval_timetables        *)
(* kernel) that gives each a validity flag and a score.                    *)
(***************************************************************************)
\* The batch sizes of the solver objects: 1 .. MaxBatch.
MaxBatch == 2

\* The static array limits of the kernel.
MAX_GROUPS == 64

MAX_PROFS == 64

MAX_DAYS == 7

MAX_SLOTS == 16

MAX_BUILDINGS == 64

\* validOut of the kernel for candidate pl: the instance fits the static
\* arrays and every day and slot is within the grid.
kernelValid(pl) ==
    /\ ~(\/ Size(inst.groups) > MAX_GROUPS
          \/ Size(inst.professors) > MAX_PROFS
          \/ DAYS > MAX_DAYS
          \/ SLOTS_PER_DAY > MAX_SLOTS
          \/ inst.numBuildings > MAX_BUILDINGS)
    /\ \A a \in 1 .. Size(inst.activities) :
          ~(pl[a].day < 0 \/ pl[a].day >= DAYS
              \/ pl[a].slot < 0 \/ pl[a].slot >= SLOTS_PER_DAY)

\* scoreOut of the kernel for candidate pl: 1000000000 for an invalid one,
\* else the late-slot, gap and building penalties, by the loops of
\* computeScore over the entries of all activities.
kernelScore(pl) ==
    IF ~kernelValid(pl) THEN 1000000000
    ELSE computeScore([a \in 1 .. Size(inst.activities) |->
                          [pl[a] EXCEPT !.activityId = a - 1]])

RECURSIVE flushFrom(_, _, _)
\* The loop of flushBatchToGPU from candidate i on: bst becomes a valid
\* candidate with a lower score.
flushFrom(b, i, bst) ==
    IF i > Len(b) THEN bst
    ELSE flushFrom(b, i + 1,
                   IF kernelValid(b[i]) /\ kernelScore(b[i]) < bst.score
                   THEN [placements |-> b[i], score |-> kernelScore(b[i])]
                   ELSE bst)

\* best_ after flushBatchToGPU on batch b (which is cleared).
flushBatchToGPU(b, bst) == flushFrom(b, 1, bst)

OpenCLObject(maxSolutions, batchSize) ==
    [solver |-> "opencl", maxSolutions |-> maxSolutions, numThreads |-> 0,
     frontierDepth |-> 0, batchSize |-> batchSize]

OpenCLInit ==
    /\ inst \in SolverInstances
    /\ cfg \in { OpenCLObject(m, b) : m \in 1 .. MaxSolutions, b \in 1 .. MaxBatch }
    /\ pc = "ready"
    /\ state = NewTimetableState
    /\ hist = << >>
    /\ outcome = "new"
    /\ orderedActivities = << >>
    /\ placements = << >>
    /\ stack = << >>
    /\ best = [placements |-> << >>, score |-> IntMax]
    /\ bestScore = IntMax
    /\ solutionsFound = 0
    /\ frontier = << >>
    /\ frontierIndex = 0
    /\ workers = << >>
    /\ queueMutex = 0
    /\ bestMutex = 0
    /\ result = NotReturned
    /\ recorded = {}
    /\ NoExt

\* solve up to the call dfs(inst, state, placements, ordered, 0).
OpenCLSolve ==
    /\ cfg.solver = "opencl"
    /\ pc = "ready"
    /\ state' = NewTimetableState
    /\ placements' = UnusedPlacements
    /\ orderedActivities' \in orderActivities(inst.activities)
    /\ solutionsFound' = 0
    /\ batch' = << >>
    /\ best' = [placements |-> << >>, score |-> IntMax]
    /\ stack' = << Frame(0) >>
    /\ pc' = "enumerate"
    /\ UNCHANGED <<inst, hist, outcome, cfg, bestScore, recorded, frontier,
                   frontierIndex, workers, queueMutex, bestMutex, result,
                   buffer, lastScore, ranks, channel, labVars>>

\* dfs from its first statement: the early stop, the leaf (enqueue the
\* timetable, flush a full batch), or the first round of the loops.
OpenCLDfsEnter ==
    /\ pc = "enumerate"
    /\ stack # << >>
    /\ Top(stack).at = "enter"
    /\ IF budgetExhausted(solutionsFound)
       THEN /\ stack' = Pop(stack)
            /\ UNCHANGED <<state, placements, best, batch, solutionsFound>>
       ELSE IF Top(stack).depth = N
       THEN /\ stack' = Pop(stack)
            /\ solutionsFound' = solutionsFound + 1
            /\ IF Len(batch) + 1 >= cfg.batchSize
               THEN /\ best' = flushBatchToGPU(Append(batch, placements), best)
                    /\ batch' = << >>
               ELSE /\ batch' = Append(batch, placements)
                    /\ UNCHANGED best
            /\ UNCHANGED <<state, placements>>
       ELSE /\ SetMainContext(searchLoop(MainContext))
            /\ UNCHANGED <<best, batch, solutionsFound>>
    /\ UNCHANGED <<inst, hist, outcome, cfg, pc, orderedActivities, bestScore,
                   recorded, frontier, frontierIndex, workers, queueMutex,
                   bestMutex, result, buffer, lastScore, ranks, channel, labVars>>

\* dfs when its recursive call has returned: undo, mark the entry unused,
\* leave when enough timetables were generated, else the next candidates.
OpenCLDfsLoop ==
    /\ pc = "enumerate"
    /\ stack # << >>
    /\ Top(stack).at = "undo"
    /\ LET top == Top(stack)
           act == At(orderedActivities, top.depth)
           undone == [state |-> undo(state, act, top.day, top.slot, top.roomIdx),
                      placements |-> [placements EXCEPT
                                         ![act.id + 1].activityId = -1],
                      stack |-> stack]
       IN  IF budgetExhausted(solutionsFound)
           THEN SetMainContext([undone EXCEPT !.stack = Pop(stack)])
           ELSE SetMainContext(loopsFrom(undone, top, act, undone.state,
                                         nextCandidate(top.day, top.slot,
                                                       top.roomIdx)))
    /\ UNCHANGED <<inst, extVars, hist, outcome, cfg, pc, orderedActivities, best,
                   bestScore, solutionsFound, recorded, frontier, frontierIndex,
                   workers, queueMutex, bestMutex, result>>

\* solve after dfs has returned: flush the rest of the batch, and return
\* nullopt when best_.score is still INT_MAX, else best_.
OpenCLReturn ==
    /\ pc = "enumerate"
    /\ stack = << >>
    /\ best' = flushBatchToGPU(batch, best)
    /\ batch' = << >>
    /\ result' = IF best'.score = IntMax THEN Nullopt ELSE Some(best')
    /\ pc' = "done"
    /\ UNCHANGED <<inst, stateVars, cfg, orderedActivities, placements, stack,
                   bestScore, solutionsFound, recorded, frontier, frontierIndex,
                   workers, queueMutex, bestMutex, buffer, lastScore, ranks,
                   channel, labVars>>

OpenCLNext == OpenCLSolve \/ OpenCLDfsEnter \/ OpenCLDfsLoop \/ OpenCLReturn

OpenCLSpec == OpenCLInit /\ [][OpenCLNext]_vars

(***************************************************************************)
(* MPIHybridMultiStartSolver: the wire format of a placement vector.       *)
(***************************************************************************)
RECURSIVE serializeFrom(_, _, _)
\* The loop of serializePlacements from placement i on: four push_back.
serializeFrom(pl, i, buf) ==
    IF i > Len(pl) THEN buf
    ELSE serializeFrom(pl, i + 1,
                       buf \o << pl[i].activityId, pl[i].day, pl[i].slot,
                                 pl[i].roomIndex >>)

\* serializePlacements: the buffer is cleared, then filled.
serializePlacements(pl) == serializeFrom(pl, 1, << >>)

\* A deserialization that reads the slot before the day.
deserializeSlotFirst(buf) ==
    [i \in 1 .. (Len(buf) \div 4) |->
        [activityId |-> At(buf, 4 * (i - 1) + 0),
         day        |-> At(buf, 4 * (i - 1) + 2),
         slot       |-> At(buf, 4 * (i - 1) + 1),
         roomIndex  |-> At(buf, 4 * (i - 1) + 3)]]

\* deserializePlacements: count = buffer.size() / 4 placements, each read
\* from four consecutive integers.
deserializePlacements(buf) ==
    [i \in 1 .. (Len(buf) \div 4) |->
        [activityId |-> At(buf, 4 * (i - 1) + 0),
         day        |-> At(buf, 4 * (i - 1) + 1),
         slot       |-> At(buf, 4 * (i - 1) + 2),
         roomIndex  |-> At(buf, 4 * (i - 1) + 3)]]

(***************************************************************************)
(* SerialSpec: a placement vector serialized, then deserialized.           *)
(***************************************************************************)
\* The length of the placement vectors to serialize.
MaxSerialLen == 2

\* The placement vectors to serialize: up to MaxSerialLen placements, used
\* or unused, on the corners of the grid.
SerialInputs ==
    UNION { [1 .. n -> { Placement(a, d, sl, r) :
                           a \in {-1, 0, 1}, d \in {0, 4}, sl \in {0, 5},
                           r \in {0, 2} }] :
            n \in 0 .. MaxSerialLen }

SerialInit ==
    /\ inst = DemoSmallInstance
    /\ placements \in SerialInputs
    /\ cfg = [solver |-> "serializePlacements", maxSolutions |-> 0,
              numThreads |-> 0, frontierDepth |-> 0]
    /\ pc = "call"
    /\ state = NewTimetableState
    /\ hist = << >>
    /\ outcome = "new"
    /\ orderedActivities = << >>
    /\ stack = << >>
    /\ best = NoSolution
    /\ bestScore = IntMax
    /\ solutionsFound = 0
    /\ frontier = << >>
    /\ frontierIndex = 0
    /\ workers = << >>
    /\ queueMutex = 0
    /\ bestMutex = 0
    /\ result = NotReturned
    /\ recorded = {}
    /\ NoExt

\* serializePlacements(placements, buffer).
SerializePlacements ==
    /\ cfg.solver = "serializePlacements"
    /\ pc = "call"
    /\ buffer' = serializePlacements(placements)
    /\ pc' = "serialized"
    /\ UNCHANGED <<inst, stateVars, cfg, orderedActivities, placements, stack,
                   best, bestScore, solutionsFound, recorded, frontier,
                   frontierIndex, workers, queueMutex, bestMutex, result,
                   batch, lastScore, ranks, channel, labVars>>

\* deserializePlacements(buffer, finalPlacements), into the placements of
\* the solution being rebuilt.
DeserializePlacements ==
    /\ cfg.solver = "serializePlacements"
    /\ pc = "serialized"
    /\ best' = [best EXCEPT !.placements = deserializePlacements(buffer)]
    /\ pc' = "deserialized"
    /\ UNCHANGED <<inst, extVars, stateVars, cfg, orderedActivities, placements,
                   stack, bestScore, solutionsFound, recorded, frontier,
                   frontierIndex, workers, queueMutex, bestMutex, result>>

SerialNext == SerializePlacements \/ DeserializePlacements

SerialSpec == SerialInit /\ [][SerialNext]_vars

(***************************************************************************)
(* MpiSpec: MPIHybridMultiStartSolver::solve called on every rank of       *)
(* MPI_COMM_WORLD.  ranks[r + 1] is the call of rank r; channel holds the   *)
(* messages sent to rank 0 and not received yet, in the order sent.        *)
(***************************************************************************)
\* The number of ranks of MPI_COMM_WORLD: 1 .. MaxRanks.
MaxRanks == 2

TAG_META == 300

TAG_DATA == 301

RECURSIVE assignmentsFrom(_, _, _)
\* The complete assignments a search of the activities of the instance from
\* activity number depth on can reach and that pass the final workload
\* check (the set does not depend on the order of the activities).
assignmentsFrom(st, pl, depth) ==
    IF depth = Size(inst.activities)
    THEN IF checkFinalWorkloadBounds(st) THEN {pl} ELSE {}
    ELSE LET act == At(inst.activities, depth)
         IN  UNION { IF roomTypeMatches(act, At(inst.rooms, c[3]))
                        /\ place(st, act, c[1], c[2], c[3]).ok
                     THEN assignmentsFrom(place(st, act, c[1], c[2], c[3]).st,
                                          [pl EXCEPT ![act.id + 1] =
                                               Placement(act.id, c[1], c[2], c[3])],
                                          depth + 1)
                     ELSE {} :
                     c \in (0 .. DAYS - 1) \X (0 .. SLOTS_PER_DAY - 1)
                              \X Indices(inst.rooms) }

\* What threadedSolver.solve(localInst) can return on a rank, for a budget
\* of at least one solution: nullopt when the instance has no feasible
\* complete assignment, else one of them with its score.
localResults ==
    LET all == assignmentsFrom(NewTimetableState, UnusedPlacements, 0)
    IN  IF all = {} THEN { Nullopt }
        ELSE { Some([placements |-> pl, score |-> computeScore(pl)]) : pl \in all }

\* A call of solve that has not started.
NewRank ==
    [at |-> "start", localOpt |-> NotReturned, localScore |-> IntMax,
     globalBestScore |-> IntMax, winnerRank |-> -1, globalWinnerRank |-> -1,
     len |-> 0, printed |-> NoSolution, result |-> NotReturned]

MpiInstances == { OneProfInstance, StarvedInstance }

MpiInit ==
    /\ inst \in MpiInstances
    /\ cfg = [solver |-> "mpi", maxSolutions |-> MaxSolutions,
              numThreads |-> MaxThreads, frontierDepth |-> 2]
    /\ ranks \in { [r \in 1 .. size |-> NewRank] : size \in 1 .. MaxRanks }
    /\ channel = << >>
    /\ pc = "ready"
    /\ state = NewTimetableState
    /\ hist = << >>
    /\ outcome = "new"
    /\ orderedActivities = << >>
    /\ placements = << >>
    /\ stack = << >>
    /\ best = NoSolution
    /\ bestScore = IntMax
    /\ solutionsFound = 0
    /\ frontier = << >>
    /\ frontierIndex = 0
    /\ workers = << >>
    /\ queueMutex = 0
    /\ bestMutex = 0
    /\ result = NotReturned
    /\ recorded = {}
    /\ batch = << >>
    /\ buffer = << >>
    /\ lastScore = 0
    /\ NoLab

\* The ranks of the communicator, 0-based.
RankIds == 0 .. (Len(ranks) - 1)

\* Only ranks and channel change.
MpiFrame ==
    UNCHANGED <<inst, stateVars, solverVars, batch, buffer, lastScore, labVars>>

\* solve on rank r up to the first MPI_Allreduce: the local threaded search
\* and localScore.
MpiLocalSolve(r) ==
    /\ cfg.solver = "mpi"
    /\ At(ranks, r).at = "start"
    /\ \E localOpt \in localResults :
          ranks' = [ranks EXCEPT ![r + 1] =
                      [@ EXCEPT !.at = "allreduce score",
                                !.localOpt = localOpt,
                                !.localScore =
                                    IF localOpt.status = "solution"
                                    THEN localOpt.solution.score ELSE IntMax]]
    /\ UNCHANGED channel
    /\ MpiFrame

\* MPI_Allreduce(localScore, globalBestScore, MPI_MIN): completes on all
\* ranks once every rank has entered it; then each rank sets winnerRank.
MpiAllreduceScore ==
    /\ cfg.solver = "mpi"
    /\ \A r \in RankIds : At(ranks, r).at = "allreduce score"
    /\ LET globalBestScore == MinOf({ At(ranks, r).localScore : r \in RankIds })
       IN  ranks' = [i \in 1 .. Len(ranks) |->
                       [ranks[i] EXCEPT
                           !.at = "allreduce winner",
                           !.globalBestScore = globalBestScore,
                           !.winnerRank =
                               IF /\ ranks[i].localScore = globalBestScore
                                  /\ ranks[i].localScore # IntMax
                               THEN i - 1 ELSE -1]]
    /\ UNCHANGED channel
    /\ MpiFrame

\* MPI_Allreduce(winnerRank, globalWinnerRank, MPI_MAX).
MpiAllreduceWinner ==
    /\ cfg.solver = "mpi"
    /\ \A r \in RankIds : At(ranks, r).at = "allreduce winner"
    /\ LET globalWinnerRank == MaxOf({ At(ranks, r).winnerRank : r \in RankIds })
       IN  ranks' = [i \in 1 .. Len(ranks) |->
                       [ranks[i] EXCEPT !.at = "decide",
                                        !.globalWinnerRank = globalWinnerRank]]
    /\ UNCHANGED channel
    /\ MpiFrame

\* Case 1: the winner is rank 0.  Rank 0 prints its local solution; every
\* rank returns std::nullopt.
MpiRootCase(r) ==
    /\ cfg.solver = "mpi"
    /\ At(ranks, r).at = "decide"
    /\ At(ranks, r).globalWinnerRank = 0
    /\ ranks' = [ranks EXCEPT ![r + 1] =
                    [@ EXCEPT !.at = "done",
                              !.printed =
                                  IF /\ r = 0
                                     /\ At(ranks, r).localOpt.status = "solution"
                                     /\ At(ranks, r).localScore
                                           = At(ranks, r).globalBestScore
                                  THEN At(ranks, r).localOpt.solution
                                  ELSE NoSolution,
                              !.result = Nullopt]]
    /\ UNCHANGED channel
    /\ MpiFrame

\* Rank r is the one that sends its solution to rank 0.
sends(r) ==
    /\ r = At(ranks, r).globalWinnerRank
    /\ At(ranks, r).localOpt.status = "solution"

\* Case 2 on the winner: serialize and MPI_Send the length (TAG_META).
MpiSendMeta(r) ==
    /\ cfg.solver = "mpi"
    /\ At(ranks, r).at = "decide"
    /\ At(ranks, r).globalWinnerRank # 0
    /\ sends(r)
    /\ LET buf == serializePlacements(At(ranks, r).localOpt.solution.placements)
       IN  /\ channel' = Append(channel,
                                [source |-> r, tag |-> TAG_META,
                                 data |-> << Len(buf) >>])
           /\ ranks' = [ranks EXCEPT ![r + 1] =
                           [@ EXCEPT !.at = IF Len(buf) > 0 THEN "send data"
                                            ELSE "after send",
                                     !.len = Len(buf)]]
    /\ MpiFrame

\* MPI_Send of the buffer (TAG_DATA).
MpiSendData(r) ==
    /\ cfg.solver = "mpi"
    /\ At(ranks, r).at = "send data"
    /\ channel' = Append(channel,
                         [source |-> r, tag |-> TAG_DATA,
                          data |-> serializePlacements(
                                       At(ranks, r).localOpt.solution.placements)])
    /\ ranks' = [ranks EXCEPT ![r + 1].at = "after send"]
    /\ MpiFrame

\* Rank r has passed the sending part of case 2.
afterSend(r) ==
    \/ At(ranks, r).at = "after send"
    \/ /\ At(ranks, r).at = "decide"
       /\ At(ranks, r).globalWinnerRank # 0
       /\ ~sends(r)

\* Rank r is the one that receives the winner's solution.
receives(r) ==
    /\ r = 0
    /\ At(ranks, r).globalWinnerRank >= 0
    /\ At(ranks, r).globalBestScore # IntMax

\* The first message of the channel from source with the tag, if any.
matching(source, tag) ==
    { i \in 1 .. Len(channel) :
        /\ channel[i].source = source /\ channel[i].tag = tag
        /\ \A j \in 1 .. (i - 1) :
              ~(channel[j].source = source /\ channel[j].tag = tag) }

Without(seq, i) == SubSeq(seq, 1, i - 1) \o SubSeq(seq, i + 1, Len(seq))

\* Rank 0: MPI_Recv of the length; with len = 0 the (empty) timetable is
\* printed and solve returns std::nullopt.
MpiRecvMeta(r) ==
    /\ cfg.solver = "mpi"
    /\ afterSend(r)
    /\ receives(r)
    /\ \E i \in matching(At(ranks, r).globalWinnerRank, TAG_META) :
          /\ channel' = Without(channel, i)
          /\ ranks' = [ranks EXCEPT ![r + 1] =
                IF channel[i].data[1] > 0
                THEN [@ EXCEPT !.at = "recv data", !.len = channel[i].data[1]]
                ELSE [@ EXCEPT !.at = "done", !.len = 0,
                               !.printed =
                                   [placements |-> << >>,
                                    score |-> At(ranks, r).globalBestScore],
                               !.result = Nullopt]]
    /\ MpiFrame

\* Rank 0: MPI_Recv of the buffer, deserializePlacements, print the
\* timetable, return std::nullopt.
MpiRecvData(r) ==
    /\ cfg.solver = "mpi"
    /\ At(ranks, r).at = "recv data"
    /\ \E i \in matching(At(ranks, r).globalWinnerRank, TAG_DATA) :
          /\ channel' = Without(channel, i)
          /\ ranks' = [ranks EXCEPT ![r + 1] =
                [@ EXCEPT !.at = "done",
                          !.printed =
                              [placements |-> deserializePlacements(channel[i].data),
                               score |-> At(ranks, r).globalBestScore],
                          !.result = Nullopt]]
    /\ MpiFrame

\* Every other rank, and rank 0 when no rank has a solution: return
\* std::nullopt.
MpiReturn(r) ==
    /\ cfg.solver = "mpi"
    /\ afterSend(r)
    /\ ~receives(r)
    /\ ranks' = [ranks EXCEPT ![r + 1] = [@ EXCEPT !.at = "done",
                                                   !.result = Nullopt]]
    /\ UNCHANGED channel
    /\ MpiFrame

MpiNext ==
    \/ MpiAllreduceScore
    \/ MpiAllreduceWinner
    \/ \E r \in RankIds : MpiLocalSolve(r)
    \/ \E r \in RankIds : MpiRootCase(r)
    \/ \E r \in RankIds : MpiSendMeta(r)
    \/ \E r \in RankIds : MpiSendData(r)
    \/ \E r \in RankIds : MpiRecvMeta(r)
    \/ \E r \in RankIds : MpiRecvData(r)
    \/ \E r \in RankIds : MpiReturn(r)

MpiSpec == MpiInit /\ [][MpiNext]_vars

(***************************************************************************)
(* DemoSpec: the sequential solver with maxSolutions = 1 on the instance   *)
(* of makeDemoSmall, on the full grid of 5 days of 6 slots.                *)
(***************************************************************************)
DemoInit ==
    /\ inst = DemoSmallInstance
    /\ cfg = SolverObject("sequential", 1, 0, 0)
    /\ pc = "ready"
    /\ state = NewTimetableState
    /\ hist = << >>
    /\ outcome = "new"
    /\ orderedActivities = << >>
    /\ placements = << >>
    /\ stack = << >>
    /\ best = NoSolution
    /\ bestScore = IntMax
    /\ solutionsFound = 0
    /\ frontier = << >>
    /\ frontierIndex = 0
    /\ workers = << >>
    /\ queueMutex = 0
    /\ bestMutex = 0
    /\ result = NotReturned
    /\ recorded = {}
    /\ NoExt

DemoSpec == DemoInit /\ [][SeqNext]_vars

(***************************************************************************)
(* InvalidDataSpec: the sequential solver on instances whose static data   *)
(* are invalid.                                                            *)
(***************************************************************************)
\* OneProfInstance with a second activity of a professor the instance lacks.
UnknownProfInstance ==
    [OneProfInstance EXCEPT !.activities[2].profId = 99]

\* OneProfInstance with a second activity for a group the instance lacks.
UnknownGroupInstance ==
    [OneProfInstance EXCEPT !.activities[2].groupIds = << 20, 77 >>]

\* OneProfInstance with the second room in a building that does not exist.
UnknownBuildingInstance ==
    [OneProfInstance EXCEPT !.rooms[2].buildingId = 7]

InvalidInstances ==
    { UnknownProfInstance, UnknownGroupInstance, UnknownBuildingInstance }

InvalidDataInit ==
    /\ inst \in InvalidInstances
    /\ cfg \in { SolverObject("sequential", m, 0, 0) : m \in Budgets }
    /\ pc = "ready"
    /\ state = NewTimetableState
    /\ hist = << >>
    /\ outcome = "new"
    /\ orderedActivities = << >>
    /\ placements = << >>
    /\ stack = << >>
    /\ best = NoSolution
    /\ bestScore = IntMax
    /\ solutionsFound = 0
    /\ frontier = << >>
    /\ frontierIndex = 0
    /\ workers = << >>
    /\ queueMutex = 0
    /\ bestMutex = 0
    /\ result = NotReturned
    /\ recorded = {}
    /\ NoExt

InvalidDataSpec == InvalidDataInit /\ [][SeqNext]_vars

(***************************************************************************)
(* ScoreSpec: computeScore called twice on a placement vector.             *)
(***************************************************************************)
\* The placement vectors to score use the days 0 .. MaxScoreDay.
MaxScoreDay == 1

\* The slots they use: two neighbours, one after an idle slot, a late one.
ScoreSlots == {0, 1, 3, 4}

\* The placement vectors to score: each activity unassigned, or assigned to
\* one of these slots of one of these days in any room.
ScoreInputs ==
    LET entries(i) ==
            { Placement(-1, 0, 0, 0) }
            \cup { Placement(i - 1, day, slot, roomIndex) :
                      day \in 0 .. MaxScoreDay, slot \in ScoreSlots,
                      roomIndex \in Indices(inst.rooms) }
    IN  { pl \in [1 .. Size(inst.activities) ->
                     UNION { entries(i) : i \in 1 .. Size(inst.activities) }] :
            \A i \in 1 .. Size(inst.activities) : pl[i] \in entries(i) }

ScoreInit ==
    /\ inst \in ScoreInstances
    /\ placements \in ScoreInputs
    /\ cfg = [solver |-> "computeScore", maxSolutions |-> 0,
              numThreads |-> 0, frontierDepth |-> 0]
    /\ pc = "call"
    /\ state = NewTimetableState
    /\ hist = << >>
    /\ outcome = "new"
    /\ orderedActivities = inst.activities
    /\ stack = << >>
    /\ best = NoSolution
    /\ bestScore = IntMax
    /\ solutionsFound = 0
    /\ frontier = << >>
    /\ frontierIndex = 0
    /\ workers = << >>
    /\ queueMutex = 0
    /\ bestMutex = 0
    /\ result = NotReturned
    /\ recorded = {}
    /\ NoExt

\* A scoring that also keeps the vector as the best solution.
ComputeScoreAndRecord ==
    /\ cfg.solver = "computeScore"
    /\ pc \in {"call", "scored"}
    /\ lastScore' = computeScore(placements)
    /\ best' = [placements |-> placements, score |-> computeScore(placements)]
    /\ pc' = IF pc = "call" THEN "scored" ELSE "scored twice"
    /\ UNCHANGED <<inst, stateVars, cfg, orderedActivities, placements, stack,
                   bestScore, solutionsFound, recorded, frontier,
                   frontierIndex, workers, queueMutex, bestMutex, result,
                   batch, buffer, ranks, channel, labVars>>

\* One call of computeScore(placements): the first, then the second.
ComputeScore ==
    /\ cfg.solver = "computeScore"
    /\ pc \in {"call", "scored"}
    /\ lastScore' = computeScore(placements)
    /\ pc' = IF pc = "call" THEN "scored" ELSE "scored twice"
    /\ UNCHANGED <<inst, stateVars, cfg, orderedActivities, placements, stack,
                   best, bestScore, solutionsFound, recorded, frontier,
                   frontierIndex, workers, queueMutex, bestMutex, result,
                   batch, buffer, ranks, channel, labVars>>

ScoreSpec == ScoreInit /\ [][ComputeScore]_vars

(***************************************************************************)
(* OrderSpec: one call of orderActivities on a list of activities.         *)
(***************************************************************************)
\* Number of activities of the lists to order.
MaxOrdered == 3

\* The instances of OrderSpec: TwoProfInstance with MaxOrdered activities of
\* any type, each for one group or for two.
OrderInstances ==
    LET shapes == {"COURSE", "SEMINAR", "LAB"} \X { << 20 >>, << 20, 21 >> }
    IN  { [TwoProfInstance EXCEPT !.activities =
              [i \in 1 .. MaxOrdered |->
                  Activity(i - 1, f[i][1], 10, f[i][2])]] :
          f \in [1 .. MaxOrdered -> shapes] }

OrderInit ==
    /\ inst \in OrderInstances
    /\ state = NewTimetableState
    /\ hist = << >>
    /\ outcome = "new"
    /\ cfg = [solver |-> "orderActivities", maxSolutions |-> 0,
              numThreads |-> 0, frontierDepth |-> 0]
    /\ pc = "call"
    /\ orderedActivities = << >>
    /\ placements = << >>
    /\ stack = << >>
    /\ best = NoSolution
    /\ bestScore = IntMax
    /\ solutionsFound = 0
    /\ frontier = << >>
    /\ frontierIndex = 0
    /\ workers = << >>
    /\ queueMutex = 0
    /\ bestMutex = 0
    /\ result = NotReturned
    /\ recorded = {}
    /\ NoExt

\* orderActivities: copy the activities and std::sort them.
OrderActivities ==
    /\ cfg.solver = "orderActivities"
    /\ pc = "call"
    /\ orderedActivities' \in orderActivities(inst.activities)
    /\ pc' = "ordered"
    /\ UNCHANGED <<inst, extVars, stateVars, cfg, placements, stack, best,
                   bestScore, solutionsFound, recorded, frontier, frontierIndex,
                   workers, queueMutex, bestMutex, result>>

OrderSpec == OrderInit /\ [][OrderActivities]_vars

(***************************************************************************)
(* WeekSpec: one professor with one activity more than the time grid has   *)
(* cells.  The caller places the activities in the order of their ids, as  *)
(* the searches do (the activity of depth d is placed while d placements   *)
(* are committed), each in any cell of the grid and in the room of its      *)
(* type, and undoes them in reverse order.                                 *)
(***************************************************************************)
\* Labs of group 20 alternate with seminars of group 21; the LAB room and
\* the SEMINAR room are in the same building.
FullWeekInstance ==
    [ numBuildings |-> 1,
      rooms        |-> << Room(0, "LAB"), Room(0, "SEMINAR") >>,
      professors   |-> << 10 >>,
      groups       |-> << 20, 21 >>,
      activities   |-> [k \in 1 .. (SmallDays * SmallSlotsPerDay + 1) |->
                          IF k % 2 = 1
                          THEN Activity(k - 1, "LAB", 10, << 20 >>)
                          ELSE Activity(k - 1, "SEMINAR", 10, << 21 >>)],
      travelTime   |-> << << 0 >> >> ]

WeekInit ==
    /\ inst = FullWeekInstance
    /\ state = NewTimetableState
    /\ hist = << >>
    /\ outcome = "new"
    /\ NoSolver
    /\ NoExt

\* The place call of the loop over (day, slot, room) of a search at depth
\* Len(hist): rooms of another type than the activity's are skipped.
WeekPlace ==
    /\ cfg.solver = "none"
    /\ Len(hist) < Size(inst.activities)
    /\ \E day \in 0 .. (DAYS - 1), slot \in 0 .. (SLOTS_PER_DAY - 1),
          roomIndex \in Indices(inst.rooms) :
          LET act == At(inst.activities, Len(hist))
              r == place(state, act, day, slot, roomIndex)
          IN  /\ At(inst.rooms, roomIndex).type = act.type
              /\ state' = r.st
              /\ outcome' = IF r.ok THEN "placed" ELSE r.failedAt
              /\ hist' = IF r.ok
                         THEN Append(hist, [act |-> act, day |-> day, slot |-> slot,
                                            roomIndex |-> roomIndex,
                                            before |-> state])
                         ELSE hist
    /\ UNCHANGED <<inst, extVars, solverVars>>

WeekNext == WeekPlace \/ Undo

WeekSpec == WeekInit /\ [][WeekNext]_vars

(***************************************************************************)
(* ShuffledSpec: the local search of a rank of the multi-start solver: a    *)
(* ThreadedBacktrackingSolver with frontierDepth = 2 solving a copy of the  *)
(* instance whose activities were shuffled.                                 *)
(***************************************************************************)
\* localInst after std::shuffle(localInst.activities...): the activities in
\* any order, each keeping its id.
shuffled(instance) ==
    { [instance EXCEPT !.activities = v] :
        v \in Rearrangements(instance.activities) }

ShuffledInit ==
    /\ inst \in shuffled(TwoProfInstance)
    /\ cfg \in { SolverObject("threaded", m, 1, 2) : m \in 1 .. MaxSolutions }
    /\ pc = "ready"
    /\ state = NewTimetableState
    /\ hist = << >>
    /\ outcome = "new"
    /\ orderedActivities = << >>
    /\ placements = << >>
    /\ stack = << >>
    /\ best = NoSolution
    /\ bestScore = IntMax
    /\ solutionsFound = 0
    /\ frontier = << >>
    /\ frontierIndex = 0
    /\ workers = << >>
    /\ queueMutex = 0
    /\ bestMutex = 0
    /\ result = NotReturned
    /\ recorded = {}
    /\ NoExt

ShuffledSpec == ShuffledInit /\ [][ThrNext]_vars

(***************************************************************************)
(* Lab1: the warehouse simulation (src/Lab1/main.cpp).  Worker threads     *)
(* move products between warehouses, each warehouse behind its own mutex.  *)
(***************************************************************************)
NumWarehouses == 3

NumProducts == 2

BaseQty == 2

MaxMovers == 2

MaxOps == 1

\* maxProductsPerMove and maxDelta of main.
maxProductsPerMove == 2

maxDelta == 2

\* A Warehouse stocked by init_system: mtx is the holder of the mutex
\* (0 = unlocked), products the quantity for each product id.
Warehouse(P, baseQty) ==
    [mtx |-> 0, products |-> [p \in 0 .. (P - 1) |-> baseQty]]

\* The sum of the quantities of product p over the warehouses (the inner
\* loop of init_system and of inventory_check).
totalOf(warehouses, p) ==
    SumFn([w \in 1 .. Len(warehouses) |-> warehouses[w].products[p]],
          1 .. Len(warehouses))

init_system(W, P, baseQty) ==
    LET warehouses == [w \in 1 .. W |-> Warehouse(P, baseQty)]
    IN  [warehouses |-> warehouses,
         initialTotals |-> [k \in 1 .. P |-> totalOf(warehouses, k - 1)]]

numProducts(sys) == Len(sys.initialTotals)

inventory_check(sys) ==
    \A p \in 0 .. (numProducts(sys) - 1) :
        totalOf(sys.warehouses, p) = At(sys.initialTotals, p)

\* The deltas worker_thread builds: one to maxProductsPerMove distinct
\* products, each with a quantity in 1 .. maxDelta.
moveDeltas(P) ==
    { d \in UNION { [1 .. n -> (0 .. (P - 1)) \X (1 .. maxDelta)] :
                      n \in 1 .. maxProductsPerMove } :
        \A i, j \in 1 .. Len(d) : i # j => d[i][1] # d[j][1] }

\* The thread of one WorkerConfig, before its first operation.
NewMover(moveFunction, numOps) ==
    [moveFunction |-> moveFunction, numOps |-> numOps, pc |-> "loop", i |-> 0,
     src |-> 0, dst |-> 0, deltas |-> << >>]

\* The order that takes the source first whatever the indices are.
lockOrderSourceFirst(moveFunction, src, dst) == <<src, dst>>

\* The order in which a move function locks the two warehouses: hybrid by
\* its two cases, two_point by first_idx and second_idx.
lockOrder(moveFunction, src, dst) ==
    IF moveFunction = "hybrid"
    THEN IF src < dst THEN <<src, dst>> ELSE <<dst, src>>
    ELSE LET first_idx == IF src < dst THEN src ELSE dst
             second_idx == IF src < dst THEN dst ELSE src
         IN  <<first_idx, second_idx>>

\* Case 1 of move_products_hybrid: the source is validated and deducted
\* before the destination is locked.
handOverHand(m) == m.moveFunction = "hybrid" /\ m.src < m.dst

\* The validation loop: the source holds every product in the quantity asked.
sufficient(wh, deltas) ==
    \A k \in 1 .. Len(deltas) :
        /\ deltas[k][1] \in DOMAIN wh.products
        /\ ~(wh.products[deltas[k][1]] < deltas[k][2])

RECURSIVE addAll(_, _, _)
\* A loop over deltas that adds sign * d to the product of each pair
\* (operator[] creates a missing entry with 0).
addAll(products, deltas, sign) ==
    IF deltas = << >> THEN products
    ELSE LET p == Head(deltas)[1]
             old == IF p \in DOMAIN products THEN products[p] ELSE 0
         IN  addAll([q \in DOMAIN products \cup {p} |->
                        IF q = p THEN old + sign * Head(deltas)[2]
                        ELSE products[q]],
                    Tail(deltas), sign)

mtxOf(w) == At(Sys.warehouses, w).mtx

lock(warehouses, w, t) == [warehouses EXCEPT ![w + 1].mtx = t]

unlock(warehouses, w) == [warehouses EXCEPT ![w + 1].mtx = 0]

deduct(warehouses, w, deltas) ==
    [warehouses EXCEPT ![w + 1].products = addAll(@, deltas, -1)]

deposit(warehouses, w, deltas) ==
    [warehouses EXCEPT ![w + 1].products = addAll(@, deltas, 1)]

\* The call has returned: worker_thread discards the value and goes on with
\* its loop.
moveReturned(m) == [m EXCEPT !.pc = "loop", !.i = @ + 1, !.src = 0, !.dst = 0,
                             !.deltas = << >>]

WarehouseInit ==
    /\ Sys = init_system(NumWarehouses, NumProducts, BaseQty)
    /\ movers \in { [t \in 1 .. n |-> NewMover(f, MaxOps)] :
                      n \in 1 .. MaxMovers, f \in {"hybrid", "two_point"} }
    /\ ok = "unchecked"
    /\ dsm = << >>
    /\ wire = << >>
    /\ inst = OneProfInstance
    /\ state = NewTimetableState
    /\ hist = << >>
    /\ outcome = "new"
    /\ NoSolver
    /\ batch = << >>
    /\ buffer = << >>
    /\ lastScore = 0
    /\ ranks = << >>
    /\ channel = << >>

LabFrame == UNCHANGED <<inst, stateVars, solverVars, batch, buffer, lastScore,
                        ranks, channel, dsm, wire>>

\* One iteration of worker_thread up to the call: src, dst (different) and
\* the deltas are drawn, the move function is entered.
MoverCall(t) ==
    /\ movers[t].pc = "loop"
    /\ movers[t].i < movers[t].numOps
    /\ \E src, dst \in Indices(Sys.warehouses) :
       \E deltas \in moveDeltas(numProducts(Sys)) :
          /\ src # dst
          /\ movers' = [movers EXCEPT ![t].pc = "call", ![t].src = src,
                                      ![t].dst = dst, ![t].deltas = deltas]
    /\ UNCHANGED <<Sys, ok>>
    /\ LabFrame

\* The loop of worker_thread has ended: the thread finishes.
MoverExit(t) ==
    /\ movers[t].pc = "loop"
    /\ ~(movers[t].i < movers[t].numOps)
    /\ movers' = [movers EXCEPT ![t].pc = "done"]
    /\ UNCHANGED <<Sys, ok>>
    /\ LabFrame

\* The first mtx.lock() of the move function.
LockFirst(t) ==
    LET m == movers[t]
        w == lockOrder(m.moveFunction, m.src, m.dst)[1]
    IN  /\ m.pc = "call"
        /\ mtxOf(w) = 0
        /\ Sys' = [Sys EXCEPT !.warehouses = lock(@, w, t)]
        /\ movers' = [movers EXCEPT ![t].pc = IF handOverHand(m)
                                               THEN "srcLocked"
                                               ELSE "firstLocked"]
        /\ UNCHANGED ok
        /\ LabFrame

\* Case 1 of hybrid under the source lock: validate, then either unlock and
\* return false or deduct.
ValidateSource(t) ==
    LET m == movers[t]
    IN  /\ m.pc = "srcLocked"
        /\ IF sufficient(At(Sys.warehouses, m.src), m.deltas)
           THEN /\ Sys' = [Sys EXCEPT !.warehouses = deduct(@, m.src, m.deltas)]
                /\ movers' = [movers EXCEPT ![t].pc = "inTransit"]
           ELSE /\ Sys' = [Sys EXCEPT !.warehouses = unlock(@, m.src)]
                /\ movers' = [movers EXCEPT ![t] = moveReturned(m)]
        /\ UNCHANGED ok
        /\ LabFrame

\* Case 1 of hybrid: Wdst.mtx.lock() while the source is still locked.
LockDestination(t) ==
    LET m == movers[t]
    IN  /\ m.pc = "inTransit"
        /\ mtxOf(m.dst) = 0
        /\ Sys' = [Sys EXCEPT !.warehouses = lock(@, m.dst, t)]
        /\ movers' = [movers EXCEPT ![t].pc = "handOver"]
        /\ UNCHANGED ok
        /\ LabFrame

\* Case 1 of hybrid: Wsrc.mtx.unlock().
UnlockSource(t) ==
    LET m == movers[t]
    IN  /\ m.pc = "handOver"
        /\ Sys' = [Sys EXCEPT !.warehouses = unlock(@, m.src)]
        /\ movers' = [movers EXCEPT ![t].pc = "dstOnly"]
        /\ UNCHANGED ok
        /\ LabFrame

\* Case 1 of hybrid: add to the destination, unlock it, return true.
Deposit(t) ==
    LET m == movers[t]
    IN  /\ m.pc = "dstOnly"
        /\ Sys' = [Sys EXCEPT
                     !.warehouses = unlock(deposit(@, m.dst, m.deltas), m.dst)]
        /\ movers' = [movers EXCEPT ![t] = moveReturned(m)]
        /\ UNCHANGED ok
        /\ LabFrame

\* The second mtx.lock() of case 2 of hybrid and of two_point.
LockSecond(t) ==
    LET m == movers[t]
        w == lockOrder(m.moveFunction, m.src, m.dst)[2]
    IN  /\ m.pc = "firstLocked"
        /\ mtxOf(w) = 0
        /\ Sys' = [Sys EXCEPT !.warehouses = lock(@, w, t)]
        /\ movers' = [movers EXCEPT ![t].pc = "bothLocked"]
        /\ UNCHANGED ok
        /\ LabFrame

\* Case 2 of hybrid and two_point with both locks held: validate, transfer
\* if the source suffices, unlock both, return.
TransferLocked(t) ==
    LET m == movers[t]
        moved == IF sufficient(At(Sys.warehouses, m.src), m.deltas)
                 THEN deposit(deduct(Sys.warehouses, m.src, m.deltas),
                              m.dst, m.deltas)
                 ELSE Sys.warehouses
    IN  /\ m.pc = "bothLocked"
        /\ Sys' = [Sys EXCEPT !.warehouses = unlock(unlock(moved, m.src), m.dst)]
        /\ movers' = [movers EXCEPT ![t] = moveReturned(m)]
        /\ UNCHANGED ok
        /\ LabFrame

\* run_benchmark after the joins: the final inventory_check.
FinalCheck ==
    /\ ok = "unchecked"
    /\ \A t \in DOMAIN movers : movers[t].pc = "done"
    /\ ok' = IF inventory_check(Sys) THEN "PASS" ELSE "FAIL"
    /\ UNCHANGED <<Sys, movers>>
    /\ LabFrame

MoverStep(t) ==
    \/ MoverCall(t)
    \/ MoverExit(t)
    \/ LockFirst(t)
    \/ ValidateSource(t)
    \/ LockDestination(t)
    \/ UnlockSource(t)
    \/ Deposit(t)
    \/ LockSecond(t)
    \/ TransferLocked(t)

WarehouseNext ==
    \/ \E t \in DOMAIN movers : MoverStep(t)
    \/ FinalCheck

WarehouseSpec == WarehouseInit /\ [][WarehouseNext]_vars

\* The scheduler runs every thread that can take a step; run_benchmark goes
\* on once the joins have returned.
FairWarehouseSpec ==
    /\ WarehouseSpec
    /\ \A t \in 1 .. MaxMovers : WF_vars(t \in DOMAIN movers /\ MoverStep(t))
    /\ WF_vars(FinalCheck)

(***************************************************************************)
(* Lab8: the distributed shared memory (src/Lab8/dsm.hpp, main.cpp).       *)
(* dsm[r] is the DistributedSharedMemory object of rank r together with    *)
(* the event_sequence of its process; wire[<<s, d>>] holds the buffers     *)
(* rank s has sent to rank d and d has not received yet, oldest first      *)
(* (MPI keeps the order of the messages between two ranks).                *)
(***************************************************************************)
WorldSize == 3

MaxDsmOps == 2

MaxValue == 1

MaxRecv == 2

UPDATE == 1

CAS == 2

ACK == 3

RanksOf(world_size) == 0 .. (world_size - 1)

\* std::map: operator[] assignment and erase.
Put(map, k, v) == [x \in DOMAIN map \cup {k} |-> IF x = k THEN v ELSE map[x]]

Erase(map, k) == [x \in DOMAIN map \ {k} |-> map[x]]

PendingMessage(timestamp, sender, msg_id, type, var_id, new_value, expected) ==
    [timestamp |-> timestamp, sender |-> sender, msg_id |-> msg_id,
     type |-> type, var_id |-> var_id, new_value |-> new_value,
     expected |-> expected]

\* A comparison by the message id alone.
PendingCompareById(a, b) == a.msg_id > b.msg_id

\* PendingCompare: TRUE when a is delivered after b.
PendingCompare(a, b) ==
    IF a.timestamp # b.timestamp THEN a.timestamp > b.timestamp
    ELSE IF a.sender # b.sender THEN a.sender > b.sender
    ELSE a.msg_id > b.msg_id

\* pending_messages_.top(): an element no other element goes before.
queueTop(pending) ==
    CHOOSE m \in pending : \A o \in pending : ~PendingCompare(m, o)

\* The object after construction; event_sequence is the vector the change
\* callback of main appends to, delivered the history of the messages
\* deliverPendingMessages has popped, casKey the key compareAndSwap waits
\* for (<< >> outside compareAndSwap).
DistributedSharedMemory(rank, world_size) ==
    [rank_ |-> rank, world_size_ |-> world_size, lamport_clock_ |-> 0,
     variables_ |-> << >>, subscriptions_ |-> << >>, next_message_id_ |-> 0,
     pending_messages_ |-> {}, ack_sets_ |-> << >>, cas_result_ |-> << >>,
     cas_done_ |-> << >>, event_sequence |-> << >>, delivered |-> << >>,
     casKey |-> << >>]

incrementClock(p) == [p EXCEPT !.lamport_clock_ = @ + 1]

subscribe(p, variable_id, subscriber_ranks) ==
    incrementClock([p EXCEPT
        !.subscriptions_ = Put(@, variable_id, subscriber_ranks),
        !.variables_ = Put(@, variable_id, 0)])

ensureSubscribed(p, variable_id) ==
    /\ variable_id \in DOMAIN p.subscriptions_
    /\ p.rank_ \in p.subscriptions_[variable_id]

\* ack_sets_[key].insert(r) for every r of seen.
ackInsert(ack_sets, key, seen) ==
    Put(ack_sets, key,
        (IF key \in DOMAIN ack_sets THEN ack_sets[key] ELSE {}) \cup seen)

\* MPI_Send of one buf to every rank of dests.
multicast(w, src, dests, buf) ==
    [c \in DOMAIN w |-> IF c[1] = src /\ c[2] \in dests
                        THEN Append(w[c], buf) ELSE w[c]]

\* write and the part of compareAndSwap before its loop: the object after
\* the call and the buf sent to the other subscribers.
issue(p, type, variable_id, new_value, expected) ==
    LET q == incrementClock(p)
        timestamp == q.lamport_clock_
        msg_id == q.next_message_id_
        msg == PendingMessage(timestamp, q.rank_, msg_id, type, variable_id,
                              new_value, expected)
        key == <<q.rank_, msg_id>>
    IN  [p |-> [q EXCEPT !.next_message_id_ = @ + 1,
                         !.pending_messages_ = @ \cup {msg},
                         !.ack_sets_ = ackInsert(@, key, {q.rank_})],
         key |-> key,
         buffer |-> <<type, variable_id, new_value, expected, q.rank_, msg_id,
                      timestamp>>]

\* haveAllAcks that asks for no acknowledgement.
haveAllAcksUnchecked(p, msg) == msg.var_id \in DOMAIN p.subscriptions_

haveAllAcks(p, msg) ==
    LET key == <<msg.sender, msg.msg_id>>
    IN  /\ msg.var_id \in DOMAIN p.subscriptions_
        /\ key \in DOMAIN p.ack_sets_
        /\ \A r \in p.subscriptions_[msg.var_id] : r \in p.ack_sets_[key]

\* The body of the loop of deliverPendingMessages for the popped msg.
deliverOne(p, msg) ==
    LET old_val == IF msg.var_id \in DOMAIN p.variables_
                   THEN p.variables_[msg.var_id] ELSE 0
        applies == msg.type = UPDATE \/ (msg.type = CAS /\ old_val = msg.expected)
        key == <<msg.sender, msg.msg_id>>
        decided == msg.type = CAS /\ msg.sender = p.rank_
    IN  [p EXCEPT
           !.pending_messages_ = @ \ {msg},
           !.variables_ = Put(@, msg.var_id,
                              IF applies THEN msg.new_value ELSE old_val),
           !.event_sequence =
               IF applies
               THEN Append(@, [variable_id |-> msg.var_id,
                               old_value |-> old_val,
                               new_value |-> msg.new_value,
                               lamport_time |-> msg.timestamp])
               ELSE @,
           !.cas_result_ = IF decided THEN Put(@, key, applies) ELSE @,
           !.cas_done_ = IF decided THEN Put(@, key, TRUE) ELSE @,
           !.delivered = Append(@, msg)]

RECURSIVE deliverPendingMessages(_)
deliverPendingMessages(p) ==
    IF p.pending_messages_ = {} THEN p
    ELSE LET top == queueTop(p.pending_messages_)
         IN  IF ~haveAllAcks(p, top) THEN p
             ELSE deliverPendingMessages(deliverOne(p, top))

\* handleDsmMessage: the object after the call and the ranks the ACK is
\* sent to.
handleDsmMessage(p, buf) ==
    IF buf[2] \notin DOMAIN p.subscriptions_ THEN [p |-> p, dests |-> {}]
    ELSE LET msg == PendingMessage(buf[7], buf[5], buf[6], buf[1],
                                   buf[2], buf[3], buf[4])
         IN  [p |-> [p EXCEPT
                       !.pending_messages_ = @ \cup {msg},
                       !.ack_sets_ = ackInsert(@, <<buf[5], buf[6]>>,
                                               {buf[5], p.rank_})],
              dests |-> p.subscriptions_[buf[2]] \ {p.rank_}]

handleAckMessage(p, buf, ack_sender) ==
    IF buf[2] \notin DOMAIN p.subscriptions_ THEN p
    ELSE [p EXCEPT !.ack_sets_ = ackInsert(@, <<buf[5], buf[6]>>,
                                           {buf[5], ack_sender})]

\* One iteration of the receive loop of processMessages on rank r for the
\* oldest buf sent by rank s: the world (dsm, wire) after it.
receiveFrom(world, r, s) ==
    LET buf == Head(world.wire[<<s, r>>])
        rest == [world.wire EXCEPT ![<<s, r>>] = Tail(@)]
        p == [world.dsm[r] EXCEPT
                !.lamport_clock_ = (IF @ > buf[7] THEN @ ELSE buf[7]) + 1]
    IN  IF buf[1] = ACK
        THEN [dsm |-> [world.dsm EXCEPT ![r] = handleAckMessage(p, buf, s)],
              wire |-> rest]
        ELSE LET h == handleDsmMessage(p, buf)
             IN  [dsm |-> [world.dsm EXCEPT ![r] = h.p],
                  wire |-> multicast(rest, r, h.dests,
                                     <<ACK, buf[2], 0, 0, buf[5],
                                       buf[6], h.p.lamport_clock_>>)]

RECURSIVE receiveLoop(_, _, _)
\* The worlds the receive loop of processMessages can leave: MPI_Iprobe
\* reports any rank whose oldest buf has arrived, or nothing; at most
\* k buffers are taken.
receiveLoop(world, r, k) ==
    {world} \cup
    (IF k = 0 THEN {}
     ELSE UNION { receiveLoop(receiveFrom(world, r, s), r, k - 1) :
                    s \in { x \in DOMAIN world.dsm :
                              world.wire[<<x, r>>] # << >> } })

\* The subscription sets of main: variable 0 is shared by all ranks,
\* variable 2 by a local group (ranks 0 and 2).
subscriptionsOfMain(world_size) ==
    [v \in {0, 2} |-> IF v = 0 THEN RanksOf(world_size) ELSE {0, 2}]

RECURSIVE subscribeAll(_, _, _)
\* The subscribe calls of main on one rank, lowest variable first.
subscribeAll(p, subs, ids) ==
    IF ids = {} THEN p
    ELSE LET v == MinOf(ids)
         IN  subscribeAll(IF p.rank_ \in subs[v] THEN subscribe(p, v, subs[v])
                          ELSE p,
                          subs, ids \ {v})

DsmInit ==
    /\ dsm = [r \in RanksOf(WorldSize) |->
                subscribeAll(DistributedSharedMemory(r, WorldSize),
                             subscriptionsOfMain(WorldSize), {0, 2})]
    /\ wire = [c \in RanksOf(WorldSize) \X RanksOf(WorldSize) |-> << >>]
    /\ Sys = [warehouses |-> << >>, initialTotals |-> << >>]
    /\ movers = << >>
    /\ ok = "unchecked"
    /\ inst = OneProfInstance
    /\ state = NewTimetableState
    /\ hist = << >>
    /\ outcome = "new"
    /\ NoSolver
    /\ batch = << >>
    /\ buffer = << >>
    /\ lastScore = 0
    /\ ranks = << >>
    /\ channel = << >>

DsmFrame == UNCHANGED <<inst, stateVars, solverVars, batch, buffer, lastScore,
                        ranks, channel, Sys, movers, ok>>

\* The operations issued so far, over all ranks.
issuedOps ==
    SumFn([r \in DOMAIN dsm |-> dsm[r].next_message_id_], DOMAIN dsm)

\* dsm.write(variable_id, new_value) on rank r.
Write(r, variable_id, new_value) ==
    /\ dsm[r].casKey = << >>
    /\ issuedOps < MaxDsmOps
    /\ ensureSubscribed(dsm[r], variable_id)
    /\ LET i == issue(dsm[r], UPDATE, variable_id, new_value, 0)
       IN  /\ dsm' = [dsm EXCEPT ![r] = i.p]
           /\ wire' = multicast(wire, r,
                                i.p.subscriptions_[variable_id] \ {r},
                                i.buffer)
    /\ DsmFrame

\* dsm.compareAndSwap(variable_id, expected, new_value) on rank r up to its
\* loop.
CompareAndSwap(r, variable_id, expected, new_value) ==
    /\ dsm[r].casKey = << >>
    /\ issuedOps < MaxDsmOps
    /\ ensureSubscribed(dsm[r], variable_id)
    /\ LET i == issue(dsm[r], CAS, variable_id, new_value, expected)
       IN  /\ dsm' = [dsm EXCEPT ![r] =
                        [i.p EXCEPT !.cas_done_ = Put(@, i.key, FALSE),
                                    !.cas_result_ = Put(@, i.key, FALSE),
                                    !.casKey = i.key]]
           /\ wire' = multicast(wire, r,
                                i.p.subscriptions_[variable_id] \ {r},
                                i.buffer)
    /\ DsmFrame

\* dsm.processMessages() on rank r, called by main or by the loop of
\* compareAndSwap: the receive loop, then deliverPendingMessages.
ProcessMessages(r) ==
    /\ \E world \in receiveLoop([dsm |-> dsm, wire |-> wire], r, MaxRecv) :
          /\ dsm' = [world.dsm EXCEPT ![r] = deliverPendingMessages(@)]
          /\ wire' = world.wire
    /\ DsmFrame

\* compareAndSwap leaves its loop: cas_done_[key] is set, the entries are
\* erased and the result is returned.
CasReturn(r) ==
    /\ dsm[r].casKey # << >>
    /\ dsm[r].cas_done_[dsm[r].casKey]
    /\ dsm' = [dsm EXCEPT ![r] =
                 [@ EXCEPT !.cas_done_ = Erase(@, dsm[r].casKey),
                           !.cas_result_ = Erase(@, dsm[r].casKey),
                           !.casKey = << >>]]
    /\ UNCHANGED wire
    /\ DsmFrame

DsmNext ==
    \/ \E r \in DOMAIN dsm : \E v \in {0, 2} : \E x \in 1 .. MaxValue :
          Write(r, v, x)
    \/ \E r \in DOMAIN dsm : \E v \in {0, 2} : \E e \in 0 .. MaxValue :
          CompareAndSwap(r, v, e, MaxValue + 1)
    \/ \E r \in DOMAIN dsm : ProcessMessages(r)
    \/ \E r \in DOMAIN dsm : CasReturn(r)

DsmSpec == DsmInit /\ [][DsmNext]_vars

(***************************************************************************)
(* Properties of the solutions the solvers return (checked on SolverSpec). *)
(***************************************************************************)
Returned == result.status = "solution"

ReturnedPlacements == result.solution.placements

\* The placements of the returned solution that hold an activity.
Assigned ==
    { i \in 1 .. Len(ReturnedPlacements) : ReturnedPlacements[i].activityId >= 0 }

\* The activity of the instance with the given id.
ActivityWithId(id) == CHOOSE a \in Elems(inst.activities) : a.id = id

ActivityAt(i) == ActivityWithId(ReturnedPlacements[i].activityId)

SameDaySlot(p, q) == p.day = q.day /\ p.slot = q.slot

ShareGroup(a, b) == Elems(a.groupIds) \cap Elems(b.groupIds) # {}

\* C5: mutual exclusion.  In every solution returned by the sequential or
\* the threaded solver, no two distinct activities placed in the same
\* (day, slot) share a room, a professor, or an attending group.
MutualExclusionOfResult ==
    Returned =>
        \A i \in Assigned, j \in Assigned :
            (i # j /\ SameDaySlot(ReturnedPlacements[i], ReturnedPlacements[j]))
                => /\ ReturnedPlacements[i].roomIndex # ReturnedPlacements[j].roomIndex
                   /\ ActivityAt(i).profId # ActivityAt(j).profId
                   /\ ~ShareGroup(ActivityAt(i), ActivityAt(j))

\* The threaded solver returned a solution in which two activities sit in
\* the same (day, slot), in different rooms.
MutualExclusionWitness ==
    /\ Returned
    /\ cfg.solver = "threaded"
    /\ \E i \in Assigned, j \in Assigned :
          /\ i # j
          /\ SameDaySlot(ReturnedPlacements[i], ReturnedPlacements[j])

\* The hours of the professor with id profId in the returned solution: 2
\* per activity assigned to that professor.
HoursInResult(profId) ==
    2 * Cardinality({ i \in Assigned : ActivityAt(i).profId = profId })

\* C6: workload bound.  Every solution returned by the sequential or the
\* threaded solver gives every professor of the instance between 4 and 80
\* hours.
WorkloadBoundOfResult ==
    Returned =>
        \A profId \in Elems(inst.professors) :
            4 <= HoursInResult(profId) /\ HoursInResult(profId) <= 80

\* The sequential solver returned a solution with exactly 4 hours for each
\* of two professors.
WorkloadBoundWitness ==
    /\ Returned
    /\ cfg.solver = "sequential"
    /\ Size(inst.professors) = 2
    /\ \A profId \in Elems(inst.professors) : HoursInResult(profId) = 4

\* Placement q is in the slot after placement p's on the same day, and their
\* activities share the professor or a group.
ConsecutiveAndLinked(i, j) ==
    /\ ReturnedPlacements[i].day = ReturnedPlacements[j].day
    /\ ReturnedPlacements[j].slot = ReturnedPlacements[i].slot + 1
    /\ \/ ActivityAt(i).profId = ActivityAt(j).profId
       \/ ShareGroup(ActivityAt(i), ActivityAt(j))

TravelBetween(i, j) ==
    At(At(inst.travelTime, BuildingOf(ReturnedPlacements[i].roomIndex)),
       BuildingOf(ReturnedPlacements[j].roomIndex))

\* C7: travel feasibility of results.  In every returned solution, two
\* activities in consecutive slots s and s+1 of a day that share the
\* professor or a group have travelTime[building at s][building at s+1]
\* <= 10, in whatever order the search placed them.
TravelFeasibilityOfResult ==
    Returned =>
        \A i \in Assigned, j \in Assigned :
            ConsecutiveAndLinked(i, j) => TravelBetween(i, j) <= 10

\* A returned solution in which linked activities follow each other in
\* different buildings, the later one having been placed first (it comes
\* earlier in orderedActivities).
TravelFeasibilityWitness ==
    /\ Returned
    /\ \E i \in Assigned, j \in Assigned :
          /\ ConsecutiveAndLinked(i, j)
          /\ BuildingOf(ReturnedPlacements[i].roomIndex)
                # BuildingOf(ReturnedPlacements[j].roomIndex)
          /\ \E k \in 1 .. N, l \in 1 .. N :
                /\ k < l
                /\ orderedActivities[k].id = ReturnedPlacements[j].activityId
                /\ orderedActivities[l].id = ReturnedPlacements[i].activityId

\* Every occupied room cell of TimetableState st holds an activity of the
\* room's type.
RoomTypesMatchIn(st) ==
    \A r \in Indices(inst.rooms), day \in GridDays, slot \in GridSlots :
        LET id == Cell(st.roomSchedule, r, day, slot)
        IN  id # kNone => At(inst.rooms, r).type = ActivityWithId(id).type

\* C10 as stated: every placement that place accepts puts the activity into
\* a room of the activity's type.
PlaceAcceptsOnlyMatchingRoomType ==
    \A c \in Committed : At(inst.rooms, c.roomIndex).type = c.act.type

\* C10, amended: place does not look at the room type, but the solvers call
\* place only for rooms of the activity's type; so every placement a solver
\* commits (in its own TimetableState, in a frontier node or in a worker's
\* copy), and every placement of a returned solution, has room.type equal
\* to activity.type.
SolverPlacementsMatchRoomType ==
    cfg.solver # "none" =>
        /\ RoomTypesMatchIn(state)
        /\ \A k \in 1 .. Len(frontier) :
              frontier[k] # NullPtr => RoomTypesMatchIn(frontier[k][1].state)
        /\ \A w \in DOMAIN workers : RoomTypesMatchIn(workers[w].state)
        /\ Returned =>
              \A i \in Assigned :
                  At(inst.rooms, ReturnedPlacements[i].roomIndex).type
                      = ActivityAt(i).type

\* A returned solution that uses the COURSE room and the SEMINAR room.
RoomTypeWitness ==
    /\ Returned
    /\ \E i \in Assigned : ActivityAt(i).type = "COURSE"
    /\ \E i \in Assigned : ActivityAt(i).type = "SEMINAR"
(***************************************************************************)
(* Properties of the search (checked on SolverSpec).                       *)
(***************************************************************************)
\* What a scored leaf changes: the best solution, its score, the solution
\* counter, and with them the history of recorded leaves.
leafVars == <<best, bestScore, solutionsFound, recorded>>

\* C15: sequential solution budget.  In one solve() of the sequential
\* solver solutionsFound_ never exceeds maxSolutions, and once it equals
\* maxSolutions no step scores a further leaf or changes the best solution.
SequentialBudget ==
    [][cfg.solver = "sequential" =>
          /\ solutionsFound' <= cfg.maxSolutions
          /\ (pc = "search" /\ solutionsFound >= cfg.maxSolutions)
                => UNCHANGED leafVars]_vars

\* The sequential search has used up its budget and a call of backtrack
\* begins at a leaf that passes the final workload check.
SequentialBudgetWitness ==
    /\ cfg.solver = "sequential"
    /\ pc = "search"
    /\ solutionsFound = cfg.maxSolutions
    /\ stack # << >>
    /\ Top(stack).at = "enter"
    /\ Top(stack).depth = N
    /\ checkFinalWorkloadBounds(state)
    /\ placements \notin recorded

\* The steps of worker thread w that read or write best_, bestScore_ or
\* solutionsFound_: the budget test at the head of dfs, which reads
\* solutionsFound_, and the update at a leaf, which reads and writes all
\* three.
accessesShared(w) == DfsEnter(w) \/ DfsRecord(w)

\* C13: lock discipline.  While worker threads run, every read and every
\* write of best_, bestScore_ and solutionsFound_ is performed by a thread
\* that holds bestMutex_.
LockDiscipline ==
    [][\A w \in Workers : accessesShared(w) => bestMutex = w]_vars

\* C14: threaded solution budget.  In one solve() of the threaded solver
\* the number of complete solutions processed (scored and counted in
\* solutionsFound_) never exceeds maxSolutions, for every number of worker
\* threads and every interleaving.
ThreadedBudget ==
    cfg.solver = "threaded" => solutionsFound <= cfg.maxSolutions

\* The threads that are exploring the search tree: the thread that called
\* solve (thread 0) while it builds the frontier, and every worker thread
\* that is inside backtrackFromPartial.
exploring ==
    (IF cfg.solver = "threaded" /\ pc = "frontier" THEN {0} ELSE {})
        \cup { w \in DOMAIN workers : workers[w].at = "dfs" }

\* C16: bounded concurrency.  At every moment of a parallel solve the number
\* of threads concurrently exploring the search tree is at most the
\* caller-supplied thread count.
BoundedConcurrency ==
    cfg.solver = "threaded" => Cardinality(exploring) <= cfg.numThreads

\* Two worker threads are inside backtrackFromPartial at the same time, which
\* is all the threads the caller asked for.
BoundedConcurrencyWitness ==
    /\ cfg.solver = "threaded"
    /\ cfg.numThreads = 2
    /\ Cardinality(exploring) = 2

\* C17: completion before return.  The parallel solve reads the solution
\* counter and the best solution and returns only after every thread it
\* started has finished; no worker writes best_, bestScore_ or
\* solutionsFound_ after solve has begun to read them.
CompletionBeforeReturn ==
    [][cfg.solver = "threaded" =>
          /\ pc' = "done" =>
                /\ \A w \in DOMAIN workers' : workers'[w].at = "exit"
                /\ bestMutex' = 0
                /\ result' = IF solutionsFound' = 0 THEN Nullopt ELSE Some(best')
          /\ pc = "done" => UNCHANGED leafVars]_vars

\* A solve with two workers has returned the best of the solutions its
\* workers recorded.
CompletionWitness ==
    /\ cfg.solver = "threaded"
    /\ cfg.numThreads = 2
    /\ pc = "done"
    /\ DOMAIN workers = 1 .. 2
    /\ solutionsFound >= 2
    /\ result = Some(best)

\* The call of dfs at the top of the stack of worker record wk has returned
\* by worker record wk2 without placing its activity: no frame of its depth
\* or deeper is left but a call that has not begun yet, and the placement of
\* its activity is the one it found.  (The step of a worker runs on, in the
\* callers, to the next call of dfs.)
calleeReturned(wk, wk2) ==
    LET d == Top(wk.stack).depth
    IN  /\ \A i \in 1 .. Len(wk2.stack) :
              /\ wk2.stack[i].depth <= d
              /\ wk2.stack[i].depth = d
                    => (i = Len(wk2.stack) /\ wk2.stack[i].at = "enter")
        /\ d < N =>
              At(wk2.placements, At(orderedActivities, d).id)
                  = At(wk.placements, At(orderedActivities, d).id)

\* C18: cooperative early exit.  A call of backtrack or of dfs that begins
\* when the solution counter has already reached the budget returns
\* immediately, without calling place, scoring a leaf, or changing the best
\* solution.
CooperativeEarlyExit ==
    [][solutionsFound >= cfg.maxSolutions =>
          /\ (cfg.solver = "sequential" /\ BacktrackEnter)
                => /\ stack' = Pop(stack)
                   /\ UNCHANGED <<state, placements, leafVars>>
          /\ \A w \in Workers :
                DfsEnter(w)
                => /\ UNCHANGED leafVars
                   /\ calleeReturned(workers[w], workers'[w])]_vars

\* A worker is about to begin a call of dfs below the leaves, for an
\* activity that has a feasible candidate, when the counter has reached the
\* budget.
EarlyExitWitness ==
    /\ cfg.solver = "threaded"
    /\ pc = "join"
    /\ solutionsFound >= cfg.maxSolutions
    /\ \E w \in Workers :
          /\ workers[w].at = "dfs"
          /\ Top(workers[w].stack).at = "enter"
          /\ Top(workers[w].stack).depth < N
          /\ firstFeasible(workers[w].state,
                           At(orderedActivities, Top(workers[w].stack).depth),
                           0, 0, 0).found

RECURSIVE replayPrefix(_, _)
\* The Constraint State holding the placements pl gives to the first k
\* activities of the order, placed on the empty state.
replayPrefix(pl, k) ==
    IF k = 0 THEN NewTimetableState
    ELSE LET act == At(orderedActivities, k - 1)
             p == At(pl, act.id)
         IN  place(replayPrefix(pl, k - 1), act, p.day, p.slot, p.roomIndex).st

RECURSIVE replayFrames(_, _, _)
\* The Constraint State st with the placements of the calls of frames i and
\* up that are waiting for their recursive call to return: the candidate
\* each of them has placed and not undone yet.
replayFrames(st, frames, i) ==
    IF i > Len(frames) \/ frames[i].at # "undo" THEN st
    ELSE replayFrames(place(st, At(orderedActivities, frames[i].depth),
                            frames[i].day, frames[i].slot, frames[i].roomIdx).st,
                      frames, i + 1)

\* The depth of the frontier nodes: frontierDepth_, or the number of
\* activities when that is smaller.
nodeDepth == IF cfg.frontierDepth < N THEN cfg.frontierDepth ELSE N

\* C20: backtracking frame.  Every successful place made by the search is
\* followed by the matching undo, whatever the recursive call did: the
\* Constraint State of a search holds exactly the placements of the calls
\* that are waiting for their recursive call, so that on return from a
\* call it equals the state at entry; after the top-level call has returned
\* the state is empty (a worker's is the state of its frontier node).
BacktrackingFrame ==
    /\ pc \in {"search", "frontier"}
          => state = replayFrames(NewTimetableState, stack, 1)
    /\ (pc \in {"join", "done"} \/ (pc \in {"search", "frontier"} /\ stack = << >>))
          => state = NewTimetableState
    /\ \A w \in DOMAIN workers :
          /\ workers[w].at = "dfs"
                => workers[w].state
                     = replayFrames(replayPrefix(workers[w].placements, nodeDepth),
                                    workers[w].stack, 1)
          /\ (workers[w].at # "dfs" /\ workers[w].placements # << >>)
                => workers[w].state
                     = replayPrefix(workers[w].placements, nodeDepth)

\* The sequential search has returned from backtrack(0) after scoring
\* leaves four placements deep, and its state is empty again.
BacktrackingFrameWitness ==
    /\ cfg.solver = "sequential"
    /\ pc = "done"
    /\ N = 4
    /\ solutionsFound >= 1
    /\ state = NewTimetableState
    /\ state # replayPrefix(best.placements, N)

\* The placements vector pl is a complete assignment: every activity of the
\* instance has its placement in it.
completeAssignment(pl) ==
    /\ Len(pl) = Size(inst.activities)
    /\ \A a \in Elems(inst.activities) : At(pl, a.id).activityId = a.id

\* C19: result presence.  solve() returns nullopt exactly when no complete
\* assignment passing the final workload check was recorded during the
\* search; otherwise it returns a solution that was recorded at a leaf, a
\* complete assignment in which every activity has a placement.
ResultPresence ==
    pc = "done" =>
        /\ result.status \in {"nullopt", "solution"}
        /\ result = Nullopt <=> recorded = {}
        /\ Returned =>
              /\ ReturnedPlacements \in recorded
              /\ completeAssignment(ReturnedPlacements)
              /\ checkFinalWorkloadBounds(replayPrefix(ReturnedPlacements, N))

\* solve has returned one of several recorded leaves.
ResultPresenceWitness ==
    /\ pc = "done"
    /\ Returned
    /\ Cardinality(recorded) >= 2

\* A step of worker thread w.
workerStep(w) ==
    \/ WorkerLockQueue(w)
    \/ WorkerClaim(w)
    \/ DfsEnter(w)
    \/ DfsLockBest(w)
    \/ DfsRecord(w)

\* The Constraint State and the placements vector of search record r.
searchObjects(r) == <<r.state, r.placements>>

\* C12: state isolation.  During the parallel phase every worker calls
\* place/undo only on a Constraint State copy and a placements vector that
\* it alone owns: a step of a worker changes no Constraint State and no
\* placements vector but that worker's own (not those of the thread that
\* called solve, not those of another worker, not those of a frontier node),
\* and the thread that called solve changes none while the workers run.
StateIsolation ==
    [][pc = "join" =>
          /\ UNCHANGED <<state, placements>>
          /\ Len(frontier') = Len(frontier)
          /\ \A k \in 1 .. Len(frontier) :
                frontier'[k] \in {frontier[k], NullPtr}
          /\ \A w \in Workers :
                searchObjects(workers'[w]) # searchObjects(workers[w])
                    => workerStep(w)]_vars

\* Two workers are inside backtrackFromPartial at the same time, each with a
\* placement of its own on its own copy, and the two copies differ.
StateIsolationWitness ==
    /\ pc = "join"
    /\ \E v \in Workers, w \in Workers :
          /\ v # w
          /\ workers[v].at = "dfs"
          /\ workers[w].at = "dfs"
          /\ Top(workers[v].stack).depth > nodeDepth
          /\ Top(workers[w].stack).depth > nodeDepth
          /\ workers[v].state # workers[w].state
          /\ workers[v].placements # workers[w].placements

RECURSIVE completions(_, _, _)
\* The complete assignments below the partial assignment pl of the first
\* depth activities of the order, held by Constraint State st, that pass
\* the final workload check: every candidate (day, slot, room of the
\* activity's type) that place accepts, activity by activity.
completions(st, pl, depth) ==
    IF depth = N
    THEN IF checkFinalWorkloadBounds(st) THEN {pl} ELSE {}
    ELSE LET act == At(orderedActivities, depth)
         IN  UNION { IF roomTypeMatches(act, At(inst.rooms, c[3]))
                        /\ place(st, act, c[1], c[2], c[3]).ok
                     THEN completions(place(st, act, c[1], c[2], c[3]).st,
                                      [pl EXCEPT ![act.id + 1] =
                                           Placement(act.id, c[1], c[2], c[3])],
                                      depth + 1)
                     ELSE {} :
                     c \in (0 .. DAYS - 1) \X (0 .. SLOTS_PER_DAY - 1)
                              \X Indices(inst.rooms) }

\* The feasible complete assignments of the instance, for the activity
\* order of the run.
feasibleAssignments == completions(NewTimetableState, UnusedPlacements, 0)

\* What a search that recorded every assignment of the set all returns:
\* nullopt for the empty set, else a solution with the minimum score.
returnsMinimumOf(all) ==
    IF all = {} THEN result = Nullopt
    ELSE /\ Returned
         /\ result.solution.score = MinOf({ computeScore(pl) : pl \in all })

\* The search recorded exactly the assignments of the set all.
recordedAll(all) ==
    cfg.maxSolutions >= Cardinality(all)
        => (recorded = all /\ returnsMinimumOf(all))

\* C11: for a fixed instance and activity order and a solution budget at
\* least the number of feasible complete assignments, the threaded solver
\* records the same set of complete assignments as the sequential solver
\* and both return the same minimum score, for every thread count >= 1,
\* every frontier depth and every interleaving of the workers: each of the
\* two records exactly the feasible complete assignments and returns their
\* minimum score.
ThreadedRefinesSequential ==
    pc = "done" => recordedAll(feasibleAssignments)

\* solve of a threaded solver with two workers and a frontier one activity
\* deep has returned after recording more assignments than any smaller
\* budget allows.
RefinementWitness ==
    /\ pc = "done"
    /\ cfg.solver = "threaded"
    /\ cfg.numThreads = 2
    /\ cfg.frontierDepth = 1
    /\ Cardinality(recorded) > MaxSolutions + MaxThreads
    /\ solutionsFound = Cardinality(recorded)

(***************************************************************************)
(* Properties of orderActivities (checked on OrderSpec).                   *)
(***************************************************************************)
\* Activities a and b are both COURSE or both non-COURSE.
sameCourseClass(a, b) == (a.type = "COURSE") <=> (b.type = "COURSE")

\* C21: activity order.  In the visiting order computed by orderActivities
\* every COURSE activity precedes every non-COURSE activity, and of two
\* activities that are both COURSE or both non-COURSE the one with strictly
\* more attending groups is visited before the one with fewer (also when
\* one is a SEMINAR and the other a LAB).
ActivityOrder ==
    pc = "ordered" =>
        \A i \in 1 .. Len(orderedActivities), j \in 1 .. Len(orderedActivities) :
            LET a == orderedActivities[i]
                b == orderedActivities[j]
            IN  /\ (a.type = "COURSE" /\ b.type # "COURSE") => i < j
                /\ (sameCourseClass(a, b)
                      /\ Len(a.groupIds) > Len(b.groupIds)) => i < j

(***************************************************************************)
(* The smallest demo instance (checked on DemoSpec).                       *)
(***************************************************************************)
\* C22: smallest demo instance.  On the instance of makeDemoSmall the
\* sequential solver with maxSolutions = 1 returns a solution with score
\* >= 0 in which all 6 activities are assigned with day in [0,5), slot in
\* [0,6) and a valid room index, and in which no room, group or professor
\* is used twice in a (day, slot), linked activities in consecutive slots
\* are at most 10 minutes apart, and no professor has more than 80 hours.
DemoSmallSolved ==
    (pc = "done" /\ inst = DemoSmallInstance) =>
        /\ Returned
        /\ result.solution.score >= 0
        /\ Len(ReturnedPlacements) = 6
        /\ \A id \in 0 .. 5 :
              LET p == At(ReturnedPlacements, id)
              IN  /\ p.activityId = id
                  /\ p.day \in 0 .. 4
                  /\ p.slot \in 0 .. 5
                  /\ p.roomIndex \in 0 .. 2
        /\ \A i \in 1 .. 6, j \in 1 .. 6 :
              /\ (i # j /\ SameDaySlot(ReturnedPlacements[i], ReturnedPlacements[j]))
                    => /\ ReturnedPlacements[i].roomIndex
                            # ReturnedPlacements[j].roomIndex
                       /\ ActivityAt(i).profId # ActivityAt(j).profId
                       /\ ~ShareGroup(ActivityAt(i), ActivityAt(j))
              /\ ConsecutiveAndLinked(i, j) => TravelBetween(i, j) <= 10
        /\ \A profId \in Elems(inst.professors) : HoursInResult(profId) <= 80

\* The solver returned a solution for the demo instance that uses both
\* buildings and has two activities in the same (day, slot).
DemoSmallWitness ==
    /\ pc = "done"
    /\ inst = DemoSmallInstance
    /\ Returned
    /\ { BuildingOf(ReturnedPlacements[i].roomIndex) : i \in 1 .. 6 } = {0, 1}
    /\ \E i \in 1 .. 6, j \in 1 .. 6 :
          i # j /\ SameDaySlot(ReturnedPlacements[i], ReturnedPlacements[j])

(***************************************************************************)
(* Properties of computeScore (checked on ScoreSpec).                      *)
(***************************************************************************)
\* The entries of pl that hold an activity of professor profId on day.
profEntries(pl, profId, day) ==
    { i \in 1 .. Len(pl) :
        /\ pl[i].activityId >= 0
        /\ pl[i].day = day
        /\ ActivityWithId(pl[i].activityId).profId = profId }

\* The entries of pl that hold an activity attended by group groupId on day.
groupEntries(pl, groupId, day) ==
    { i \in 1 .. Len(pl) :
        /\ pl[i].activityId >= 0
        /\ pl[i].day = day
        /\ groupId \in Elems(ActivityWithId(pl[i].activityId).groupIds) }

\* The unoccupied slots strictly between the first and the last slot of the
\* entries E of pl.
idleBetween(pl, E) ==
    LET occupied == { pl[i].slot : i \in E }
    IN  Cardinality({ sl \in GridSlots \ occupied :
                        \E lo \in occupied, hi \in occupied : lo < sl /\ sl < hi })

\* The buildings beyond the second that the entries E of pl visit.
extraBuildings(pl, E) ==
    LET visited == Cardinality({ BuildingOf(pl[i].roomIndex) : i \in E })
    IN  IF visited > 2 THEN visited - 2 ELSE 0

\* The penalties of the entries E of pl.
penalty(pl, E) == idleBetween(pl, E) + extraBuildings(pl, E)

\* The score of pl as the sum of its three kinds of penalties.
scoreByDefinition(pl) ==
    LET resourceDays == ({"group"} \X Elems(inst.groups) \X GridDays)
                        \cup ({"prof"} \X Elems(inst.professors) \X GridDays)
    IN  Cardinality({ i \in 1 .. Len(pl) :
                        pl[i].activityId >= 0 /\ pl[i].slot >= 4 })
        + SumFn([x \in resourceDays |->
                    IF x[1] = "group"
                    THEN penalty(pl, groupEntries(pl, x[2], x[3]))
                    ELSE penalty(pl, profEntries(pl, x[2], x[3]))],
                resourceDays)

\* C23: score definition.  computeScore returns (number of activities with
\* slot >= 4) + (for each group, each professor and each day, the number of
\* unoccupied slots strictly between that resource's first and last
\* occupied slot, 0 when it has 0 or 1 occupied slot) + (for each group,
\* each professor and each day, max(0, distinct buildings visited - 2));
\* entries with activityId < 0 contribute nothing.
ScoreDefinition ==
    pc # "call" => lastScore = scoreByDefinition(placements)

\* A scored vector with a late activity, an idle slot between two activities
\* and three buildings in one day, next to an unassigned entry or not.
ScoreDefinitionWitness ==
    /\ pc = "scored"
    /\ \E i \in 1 .. Len(placements) :
          placements[i].activityId >= 0 /\ placements[i].slot >= 4
    /\ \E d \in GridDays :
          /\ idleBetween(placements, groupEntries(placements, 20, d)) > 0
          /\ extraBuildings(placements, profEntries(placements, 10, d)) > 0
    /\ lastScore > 3

staticDataInvalid ==
    \/ \E a \in Elems(inst.activities) :
          \/ a.profId \notin Elems(inst.professors)
          \/ ~(Elems(a.groupIds) \subseteq Elems(inst.groups))
    \/ \E r \in Elems(inst.rooms) : r.buildingId \notin ValidBuildings

\* C25: invalid static data.  When an activity references a professor id or
\* a group id that is not in the instance, or a room has an out-of-range
\* building id, solve reports a configuration error before any search step
\* (the first call of backtrack never runs), and that outcome is neither
\* "no solution" nor a solution.
InvalidDataReported ==
    staticDataInvalid =>
        /\ pc = "search" => stack = << Frame(0) >>
        /\ pc = "done" => /\ result.status \notin {"nullopt", "solution"}
                          /\ state = NewTimetableState
                          /\ solutionsFound = 0

(***************************************************************************)
(* How the threaded solver splits the work (checked on SolverSpec).        *)
(***************************************************************************)
\* The sub-budget of choice i when threadsLeft threads are divided evenly
\* over c choices.
subBudget(i, threadsLeft, c) ==
    (threadsLeft \div c) + (IF i <= threadsLeft % c THEN 1 ELSE 0)

committedIn(st, id) ==
    \E r \in Indices(inst.rooms), day \in GridDays, slot \in GridSlots :
        Cell(st.roomSchedule, r, day, slot) = id

\* The placements array pl has one entry per activity id, and the entry of
\* an activity is unassigned exactly when the activity is not committed in
\* st.
sentinelsMatch(pl, st) ==
    /\ Len(pl) = Size(inst.activities)
    /\ \A a \in Elems(inst.activities) :
          At(pl, a.id).activityId = -1 <=> ~committedIn(st, a.id)

\* C27: unassigned sentinel.  At every point of a search the placements
\* array has exactly one entry per activity id, and the entry of activity a
\* has activityId = -1 exactly when a is not currently committed in the
\* Constraint State (entries of activities that were placed and then undone
\* are unassigned again); for the search of solve and for every worker's.
UnassignedSentinel ==
    /\ pc \in {"search", "frontier"} => sentinelsMatch(placements, state)
    /\ \A w \in DOMAIN workers :
          workers[w].at = "dfs"
              => sentinelsMatch(workers[w].placements, workers[w].state)

(***************************************************************************)
(* The exhaustive-enumeration variant (checked on OpenCLSpec).             *)
(***************************************************************************)
\* C28: exhaustive-enumeration variant.  Every solution returned by the
\* solver that delegates scoring to the batch scorer satisfies the hard
\* constraints of the Constraint State (no room, professor or group twice
\* in a (day, slot), travel times of linked neighbours <= 10) including the
\* final workload bounds 4 <= hours[p] <= 80 of every professor; and it
\* returns a solution only if the sequential solver with the same budget
\* does, that is, only if the instance has a feasible complete assignment
\* that passes the final workload check.
ExhaustiveResultFeasible ==
    (cfg.solver = "opencl" /\ pc = "done" /\ Returned) =>
        /\ \A i \in Assigned, j \in Assigned :
              /\ (i # j /\ SameDaySlot(ReturnedPlacements[i], ReturnedPlacements[j]))
                    => /\ ReturnedPlacements[i].roomIndex
                            # ReturnedPlacements[j].roomIndex
                       /\ ActivityAt(i).profId # ActivityAt(j).profId
                       /\ ~ShareGroup(ActivityAt(i), ActivityAt(j))
              /\ ConsecutiveAndLinked(i, j) => TravelBetween(i, j) <= 10
        /\ \A profId \in Elems(inst.professors) :
              4 <= HoursInResult(profId) /\ HoursInResult(profId) <= 80
        /\ feasibleAssignments # {}

(***************************************************************************)
(* Serialization of placements (checked on SerialSpec).                    *)
(***************************************************************************)
\* C29: serialization round trip.  For every placement vector P,
\* deserializePlacements(serializePlacements(P)) equals P element by
\* element, and the buffer holds exactly 4 integers per placement in the
\* order (activityId, day, slot, roomIndex).
SerializationRoundTrip ==
    /\ pc \in {"serialized", "deserialized"} =>
          /\ Len(buffer) = 4 * Len(placements)
          /\ \A i \in 1 .. Len(placements) :
                /\ buffer[4 * i - 3] = placements[i].activityId
                /\ buffer[4 * i - 2] = placements[i].day
                /\ buffer[4 * i - 1] = placements[i].slot
                /\ buffer[4 * i] = placements[i].roomIndex
    /\ pc = "deserialized" =>
          /\ Len(best.placements) = Len(placements)
          /\ \A i \in 1 .. Len(placements) : best.placements[i] = placements[i]

\* Two placements that differ in every field went through the round trip.
SerializationWitness ==
    /\ pc = "deserialized"
    /\ Len(placements) = 2
    /\ Len(best.placements) = 2
    /\ placements[1] = Placement(-1, 0, 5, 0)
    /\ placements[2] = Placement(1, 4, 0, 2)

(***************************************************************************)
(* The multi-start result (checked on MpiSpec).                            *)
(***************************************************************************)
\* Every rank has returned from solve.
allReturned == \A r \in RankIds : At(ranks, r).at = "done"

\* C30: multi-start result.  When at least one rank finds a solution, solve
\* returns on rank 0 the timetable whose score is the minimum over all
\* ranks' local best scores, and nullopt on every other rank; every message
\* of the winning rank has been received by rank 0 when the ranks have
\* returned, and a rank that has not returned can take a step.
MultiStartResult ==
    /\ (cfg.solver = "mpi" /\ allReturned
          /\ \E r \in RankIds : At(ranks, r).localOpt.status = "solution") =>
            /\ At(ranks, 0).result.status = "solution"
            /\ At(ranks, 0).result.solution.score
                  = MinOf({ At(ranks, r).localScore : r \in RankIds })
            /\ \A r \in RankIds \ {0} : At(ranks, r).result = Nullopt
            /\ channel = << >>
    /\ (cfg.solver = "mpi" /\ ~allReturned) => ENABLED MpiNext

(***************************************************************************)
(* The workload limit under place/undo (checked on WeekSpec).              *)
(***************************************************************************)
\* The cells of professor p's grid that hold an activity.
occupiedCells(p) ==
    { c \in (0 .. (DAYS - 1)) \X (0 .. (SLOTS_PER_DAY - 1)) :
        Cell(state.profSchedule, p, c[1], c[2]) # kNone }

\* C31: the workload upper-bound rejection is unreachable.  In every state
\* reached through successful place calls (and undos) a professor's hours
\* equal 2 times the number of occupied cells of that professor's grid, hence
\* are at most 2 * DAYS * SLOTS_PER_DAY, which is below 80; no place call
\* returns false at the workload step, so the counter is never rolled back.
WorkloadRejectionUnreachable ==
    /\ \A p \in Indices(inst.professors) :
          /\ At(state.profHours, p) = 2 * Cardinality(occupiedCells(p))
          /\ At(state.profHours, p) <= 2 * DAYS * SLOTS_PER_DAY
    /\ 2 * DAYS * SLOTS_PER_DAY < 80
    /\ outcome # "workload"

\* The professor's grid is full, and the place call of one more activity of
\* the professor was rejected because the professor is busy.
WorkloadRejectionWitness ==
    /\ Cardinality(occupiedCells(0)) = DAYS * SLOTS_PER_DAY
    /\ At(state.profHours, 0) = 2 * DAYS * SLOTS_PER_DAY
    /\ Len(hist) = DAYS * SLOTS_PER_DAY
    /\ outcome = "prof"

(***************************************************************************)
(* The final workload check at the leaves (checked on SolverSpec).         *)
(***************************************************************************)
\* The number of activities of the instance taught by the professor of
\* index p.
taughtBy(p) ==
    Cardinality({ k \in 1 .. Len(inst.activities) :
                    inst.activities[k].profId = At(inst.professors, p) })

\* The Constraint States of the searches that are at a leaf: the frame on
\* top of the recursion stack has depth N.
leafStates ==
    (IF pc \in {"search", "frontier"} /\ stack # << >> /\ Top(stack).depth = N
     THEN {state} ELSE {})
    \cup (IF pc = "join"
          THEN { workers[w].state :
                   w \in { v \in Workers :
                             /\ workers[v].at = "dfs"
                             /\ Top(workers[v].stack).depth = N } }
          ELSE {})

\* C32: the final workload check does not depend on the placement.  At every
\* leaf a professor's hours equal 2 times the number of the instance's
\* activities taught by that professor, so checkFinalWorkloadBounds returns
\* the same value at every leaf of an instance; if some professor teaches
\* fewer than 2 activities, every leaf is rejected and solve returns nullopt.
FinalCheckIgnoresPlacement ==
    /\ \A st \in leafStates :
          /\ \A p \in Indices(inst.professors) :
                At(st.profHours, p) = 2 * taughtBy(p)
          /\ checkFinalWorkloadBounds(st)
                <=> \A p \in Indices(inst.professors) :
                       4 <= 2 * taughtBy(p) /\ 2 * taughtBy(p) <= 80
    /\ (\E p \in Indices(inst.professors) : taughtBy(p) < 2) =>
          /\ recorded = {}
          /\ solutionsFound = 0
          /\ pc = "done" => result = Nullopt

\* A worker thread is at a leaf of the instance whose professors teach one
\* activity each, with both activities committed, and the final check
\* rejects it.
FinalCheckWitness ==
    /\ inst = StarvedInstance
    /\ pc = "join"
    /\ \E w \in Workers :
          /\ workers[w].at = "dfs"
          /\ Top(workers[w].stack).depth = N
          /\ Top(workers[w].stack).at = "enter"
          /\ workers[w].state \in leafStates
          /\ workers[w].state.profHours = << 2, 2 >>
          /\ ~checkFinalWorkloadBounds(workers[w].state)

(***************************************************************************)
(* The placement vectors at the leaves (checked on SolverSpec).            *)
(***************************************************************************)
\* The searches that are at a leaf, each as its Constraint State and its
\* placement vector.
leafContexts ==
    (IF pc \in {"search", "frontier"} /\ stack # << >> /\ Top(stack).depth = N
     THEN { [state |-> state, placements |-> placements] } ELSE {})
    \cup (IF pc = "join"
          THEN { [state |-> workers[w].state,
                  placements |-> workers[w].placements] :
                   w \in { v \in Workers :
                             /\ workers[v].at = "dfs"
                             /\ Top(workers[v].stack).depth = N } }
          ELSE {})

\* Activity a occupies, in the grids of index set idxs, the cell (day, slot)
\* and no other cell.
holdsExactlyAt(schedules, idxs, a, day, slot) ==
    \A i \in Indices(schedules), d \in 0 .. (DAYS - 1),
       s \in 0 .. (SLOTS_PER_DAY - 1) :
        Cell(schedules, i, d, s) = a.id
            <=> (i \in idxs /\ d = day /\ s = slot)

\* C33: leaf consistency.  Whenever a search is at a leaf (depth = N), where
\* complete solutions are recorded, for every activity a the entry
\* placements[a.id] has activityId = a.id and its (day, slot, roomIndex) is
\* exactly the cell where the search's Constraint State holds a, in the
\* room, the professor's and the attending groups' grids; no entry left over
\* from an undone branch is part of a recorded solution.
LeafConsistency ==
    /\ \A c \in leafContexts :
          \A k \in 1 .. Len(inst.activities) :
              LET a == inst.activities[k]
                  p == At(c.placements, a.id)
              IN  /\ p.activityId = a.id
                  /\ holdsExactlyAt(c.state.roomSchedule, {p.roomIndex}, a,
                                    p.day, p.slot)
                  /\ holdsExactlyAt(c.state.profSchedule,
                                    {profIndex(a.profId)}, a, p.day, p.slot)
                  /\ holdsExactlyAt(c.state.groupSchedule,
                                    KnownGroupIndices(a), a, p.day, p.slot)
    /\ \A pl \in recorded :
          \A k \in 1 .. Len(inst.activities) :
              At(pl, inst.activities[k].id).activityId = inst.activities[k].id

\* A worker records a second complete solution: its placement vector was
\* rewritten after the recursion returned from the first leaf.
LeafConsistencyWitness ==
    /\ pc = "join"
    /\ solutionsFound >= 1
    /\ \E w \in Workers :
          /\ workers[w].at = "dfs"
          /\ Top(workers[w].stack).at = "record"
          /\ Top(workers[w].stack).depth = N
          /\ workers[w].placements \notin recorded
          /\ [state |-> workers[w].state,
              placements |-> workers[w].placements] \in leafContexts

(***************************************************************************)
(* The overshoot of the budget (checked on SolverSpec).                    *)
(***************************************************************************)
\* C34: bounded overshoot of the budget.  With maxSolutions >= 1 and T
\* worker threads, the threaded solver's solutionsFound_ never decreases and
\* never exceeds maxSolutions + T - 1 in any interleaving: a worker that
\* passed the budget check at a leaf before the counter reached the budget
\* still records that one leaf.
BoundedOvershoot ==
    [][/\ solutionsFound' >= solutionsFound
       /\ (cfg.solver = "threaded" /\ cfg.maxSolutions >= 1) =>
             solutionsFound' <= cfg.maxSolutions + cfg.numThreads - 1]_vars

\* Two workers, and the counter is one past the budget: the second worker
\* has recorded the leaf it had reached when the first one used the budget
\* up.
BoundedOvershootWitness ==
    /\ cfg.solver = "threaded"
    /\ cfg.numThreads = 2
    /\ solutionsFound = cfg.maxSolutions + cfg.numThreads - 1
    /\ \A w \in Workers : workers[w].at \in {"idle", "claim", "exit"}

(***************************************************************************)
(* The distribution of the frontier (checked on SolverSpec).               *)
(***************************************************************************)
\* Worker w leaves the critical section of workerLoop in this step.
claimStep(w) ==
    /\ pc = "join"
    /\ workers[w].at = "claim"
    /\ workers'[w].at # "claim"

\* C35: work distribution.  Every frontier node built by the sequential
\* frontier phase is claimed by exactly one worker, never by two and never
\* skipped: a worker that leaves the critical section either exits, and then
\* frontierIndex_ has reached the frontier size, or takes the node at
\* frontierIndex_, which no worker has taken before, and moves the index by
\* one; no other worker's node changes in that step; and when solve returns
\* every node has been taken.
WorkDistribution ==
    [][/\ \A w \in DOMAIN workers :
            claimStep(w) =>
               /\ \A v \in DOMAIN workers \ {w} : workers'[v] = workers[v]
               /\ IF frontierIndex >= Size(frontier)
                  THEN /\ workers'[w].at = "exit"
                       /\ UNCHANGED <<frontier, frontierIndex>>
                  ELSE /\ At(frontier, frontierIndex) # NullPtr
                       /\ workers'[w].at = "dfs"
                       /\ workers'[w].state = At(frontier, frontierIndex)[1].state
                       /\ workers'[w].placements
                             = At(frontier, frontierIndex)[1].placements
                       /\ frontierIndex' = frontierIndex + 1
                       /\ frontier' = [frontier EXCEPT
                                          ![frontierIndex + 1] = NullPtr]
       /\ \A w \in DOMAIN workers :
            (workers[w].at # "exit" /\ workers'[w].at = "exit")
               => frontierIndex >= Size(frontier)
       /\ (cfg.solver = "threaded" /\ pc' = "done" /\ frontier # << >>) =>
             /\ frontierIndex' = Size(frontier')
             /\ \A k \in 1 .. Len(frontier') : frontier'[k] = NullPtr]_vars

\* Two workers explore at the same time, each from the frontier node it
\* took, and the nodes differ.
WorkDistributionWitness ==
    /\ pc = "join"
    /\ cfg.numThreads = 2
    /\ frontierIndex = 2
    /\ \A w \in Workers : workers[w].at = "dfs"
    /\ workers[1].placements # workers[2].placements

(***************************************************************************)
(* Termination (checked on FairSolverSpec: SolverSpec under fair           *)
(* scheduling of the thread that called solve and of every worker thread). *)
(***************************************************************************)
\* The thread that called solve is inside backtrack or buildFrontierDFS,
\* where it waits for nothing; and a step of it there.
mainSearches == pc \in {"search", "frontier"} /\ stack # << >>

mainSearchStep ==
    BacktrackEnter \/ BacktrackLoop \/ BuildFrontierEnter \/ BuildFrontierLoop

\* The other steps of the thread that called solve: the start of solve, the
\* launch of the workers, and the return (after the join of every worker).
mainStep == SeqSolve \/ SeqReturn \/ ThrSolve \/ LaunchWorkers \/ JoinReturn

\* Worker w is inside dfs and waits for no mutex; and a step of it there.
workerSearches(w) ==
    /\ pc = "join"
    /\ w \in DOMAIN workers
    /\ workers[w].at = "dfs"
    /\ Top(workers[w].stack).at \in {"enter", "record"}

workerSearchStep(w) == w \in Workers /\ (DfsEnter(w) \/ DfsRecord(w))

\* The steps of worker w that take or release a mutex in workerLoop, or take
\* bestMutex_ at a leaf.
workerMutexStep(w) ==
    /\ w \in Workers
    /\ (WorkerLockQueue(w) \/ WorkerClaim(w) \/ DfsLockBest(w))

\* Fair scheduling: a thread that can take a step is not left waiting
\* forever.  A thread inside a search can always take its step, so that
\* weak fairness of its search steps reads: infinitely often it is not
\* searching, or infinitely often it takes a search step.
FairSolverSpec ==
    /\ SolverInit
    /\ [][SolverNext]_vars
    /\ WF_vars(mainStep)
    /\ []<>(~mainSearches) \/ []<><<mainSearchStep>>_vars
    /\ \A w \in 1 .. MaxThreads :
          /\ WF_vars(workerMutexStep(w))
          /\ []<>(~workerSearches(w)) \/ []<><<workerSearchStep(w)>>_vars

\* Every worker thread has left workerLoop and holds no mutex.
workersExited ==
    /\ \A w \in DOMAIN workers : workers[w].at = "exit"
    /\ queueMutex = 0
    /\ bestMutex = 0

\* C36: termination and deadlock freedom.  The sequential and the threaded
\* solve terminate; no worker ever holds queueMutex_ and bestMutex_ at the
\* same time; under fair scheduling no worker blocks forever on either
\* mutex and every worker eventually exits workerLoop: every run reaches
\* the return of solve with every worker out of workerLoop and both mutexes
\* free, which a worker blocked on a mutex would prevent.
TerminationAndDeadlockFreedom ==
    /\ <>(pc = "done" /\ result # NotReturned /\ workersExited)
    /\ [](\A w \in DOMAIN workers : ~(queueMutex = w /\ bestMutex = w))

\* A threaded solve with two workers has returned: both workers have left
\* workerLoop and both mutexes are free.
TerminationWitness ==
    /\ cfg.solver = "threaded"
    /\ cfg.numThreads = 2
    /\ pc = "done"
    /\ result # NotReturned
    /\ \A w \in Workers : workers[w].at = "exit"
    /\ queueMutex = 0
    /\ bestMutex = 0
    /\ solutionsFound >= 2

(***************************************************************************)
(* The best-solution record (checked on SolverSpec).                       *)
(***************************************************************************)
\* What holds of best_ and bestScore_ once a solution has been recorded, and
\* of the solution solve returns.
bestIsMinimumOfRecorded ==
    /\ recorded # {} =>
          /\ best.score = bestScore
          /\ bestScore = MinOf({ computeScore(pl) : pl \in recorded })
          /\ best.placements \in recorded
          /\ computeScore(best.placements) = bestScore
    /\ Returned =>
          result.solution.score = computeScore(result.solution.placements)

\* C37 as stated: bestScore_ never increases during a solve; at every moment
\* best_.score equals bestScore_, which is the minimum score over all
\* solutions recorded so far, and best_.placements is one of the recorded
\* solutions having that score; the returned score equals computeScore of
\* the returned placements.
BestRecordAtEveryMoment ==
    /\ [][bestScore' <= bestScore]_vars
    /\ [](pc # "ready" => best.score = bestScore)
    /\ []bestIsMinimumOfRecorded

\* C37, amended: bestScore_ never increases during a solve; from the first
\* recorded solution on, best_.score equals bestScore_, which is the minimum
\* score over all solutions recorded so far, and best_.placements is one of
\* the recorded solutions having that score; the returned score equals
\* computeScore of the returned placements.  (Before the first solution is
\* recorded bestScore_ is INT_MAX and best_.score is whatever it was.)
BestRecordSinceFirstSolution ==
    /\ [][bestScore' <= bestScore]_vars
    /\ []bestIsMinimumOfRecorded

\* A threaded solve has returned the best of several recorded solutions, at
\* least one of which has a higher score.
BestRecordWitness ==
    /\ cfg.solver = "threaded"
    /\ Returned
    /\ result.solution.score = bestScore
    /\ \E pl \in recorded : computeScore(pl) > bestScore

(***************************************************************************)
(* The score under reordered activities (checked on ShuffledSpec).         *)
(***************************************************************************)
\* C38: score under reordered activities.  The score the threaded solver
\* attaches to a solution (the score computed at a leaf, the score of the
\* best solution, the score returned) equals the soft-constraint penalty of
\* that placement vector evaluated with, for each placement, the activity
\* whose id equals placement.activityId, for every ordering of
\* inst.activities, including the shuffled orderings the multi-start
\* wrapper passes to it.
ScoreUnderReordering ==
    /\ \A w \in DOMAIN workers :
          (/\ workers[w].at = "dfs"
           /\ Top(workers[w].stack).at \in {"lock", "record"})
             => Top(workers[w].stack).score
                   = scoreByDefinition(workers[w].placements)
    /\ recorded # {} => best.score = scoreByDefinition(best.placements)
    /\ Returned =>
          result.solution.score = scoreByDefinition(result.solution.placements)

(***************************************************************************)
(* Properties of the warehouse transfers (checked on FairWarehouseSpec).   *)
(***************************************************************************)
\* The warehouses whose mutex thread t holds.
heldBy(t) == { w \in Indices(Sys.warehouses) : mtxOf(w) = t }

\* The warehouse whose mutex thread t is about to lock, -1 if its next
\* statement is not a lock().
wanted(t) ==
    LET m == movers[t]
    IN  CASE m.pc = "call" -> lockOrder(m.moveFunction, m.src, m.dst)[1]
          [] m.pc = "firstLocked" -> lockOrder(m.moveFunction, m.src, m.dst)[2]
          [] m.pc = "inTransit" -> m.dst
          [] OTHER -> -1

\* A thread that takes a mutex holds only mutexes of lower warehouses.
ascendingAcquisition ==
    \A t \in DOMAIN movers : \A w \in Indices(Sys.warehouses) :
        (mtxOf(w) # t /\ mtxOf(w)' = t) => \A v \in heldBy(t) : v < w

\* A set of threads each waiting for a mutex one of them holds.
circularWait ==
    \E T \in SUBSET (DOMAIN movers) :
        /\ T # {}
        /\ \A t \in T : wanted(t) # -1 /\ mtxOf(wanted(t)) \in T

\* No move call is in progress.
allCallsReturned == \A t \in DOMAIN movers : movers[t].pc \in {"loop", "done"}

\* C39: threads calling move_products_hybrid or move_products_two_point on
\* pairs src # dst take the warehouse mutexes in ascending index, never
\* reach a deadlock, every call returns (all threads finish and the final
\* check runs), and whenever no call is in progress the total of each
\* product over the warehouses is its initial total.
OrderedLockingTransfers ==
    /\ [][ascendingAcquisition]_vars
    /\ [](~circularWait)
    /\ [](allCallsReturned => inventory_check(Sys))
    /\ [](ok # "FAIL")
    /\ <>(allCallsReturned /\ ok = "PASS")

\* Two threads move in opposite directions between the same two warehouses:
\* one has deducted from its source and still holds it, the other waits
\* for that mutex before it may touch anything.
OrderedLockingWitness ==
    \E t, u \in DOMAIN movers :
        /\ t # u
        /\ movers[t].pc = "inTransit"
        /\ movers[u].pc = "call"
        /\ movers[u].src = movers[t].dst
        /\ movers[u].dst = movers[t].src
        /\ wanted(u) = movers[t].src
        /\ mtxOf(movers[t].src) = t
        /\ ~inventory_check(Sys)

(***************************************************************************)
(* Properties of the distributed shared memory (checked on DsmSpec).       *)
(***************************************************************************)
\* The entries of a sequence of messages that are about variable v.
onVariable(messages, v) == SelectSeq(messages, LAMBDA m : m.var_id = v)

\* The callbacks of event_sequence for variable v.
callbacksOn(events, v) == SelectSeq(events, LAMBDA e : e.variable_id = v)

isPrefix(a, b) == Len(a) <= Len(b) /\ SubSeq(b, 1, Len(a)) = a

\* One of two processes may be ahead of the other, nothing else differs.
agree(a, b) == isPrefix(a, b) \/ isPrefix(b, a)

subscribedTo(v) ==
    { r \in DOMAIN dsm : v \in DOMAIN dsm[r].subscriptions_ }

\* Nothing is in flight and nothing waits in a queue.
quiescent ==
    /\ \A c \in DOMAIN wire : wire[c] = << >>
    /\ \A r \in DOMAIN dsm : dsm[r].pending_messages_ = {}

\* The subscribers of every variable deliver its operations in the order of
\* PendingCompare and agree on them, on the callbacks and, at the end, on
\* the value.
sameOrderEverywhere ==
    \A v \in {0, 2} : \A p, q \in subscribedTo(v) :
        LET dp == onVariable(dsm[p].delivered, v)
        IN  /\ \A i, j \in 1 .. Len(dp) : i < j => PendingCompare(dp[j], dp[i])
            /\ agree(dp, onVariable(dsm[q].delivered, v))
            /\ agree(callbacksOn(dsm[p].event_sequence, v),
                     callbacksOn(dsm[q].event_sequence, v))
            /\ quiescent =>
                  /\ dsm[p].variables_[v] = dsm[q].variables_[v]
                  /\ callbacksOn(dsm[p].event_sequence, v)
                        = callbacksOn(dsm[q].event_sequence, v)

\* Every delivered message has been acknowledged by every subscriber of its
\* variable: the rank that delivered it has them all in the ack set, and
\* each of them has indeed sent or received the message.
deliveredAcknowledged ==
    \A p \in DOMAIN dsm : \A k \in 1 .. Len(dsm[p].delivered) :
        LET m == dsm[p].delivered[k]
            key == <<m.sender, m.msg_id>>
        IN  \A r \in dsm[p].subscriptions_[m.var_id] :
                /\ key \in DOMAIN dsm[p].ack_sets_
                /\ r \in dsm[p].ack_sets_[key]
                /\ \/ m \in dsm[r].pending_messages_
                   \/ \E i \in 1 .. Len(dsm[r].delivered) : dsm[r].delivered[i] = m

\* A message popped in a step went before everything the step left in the
\* queue and before everything the step popped after it.
deliveredFromHead ==
    \A p \in DOMAIN dsm :
        LET before == Len(dsm[p].delivered)
            after == dsm'[p].delivered
        IN  \A k \in (before + 1) .. Len(after) :
                /\ \A m \in dsm'[p].pending_messages_ :
                      PendingCompare(m, after[k])
                /\ \A j \in (k + 1) .. Len(after) :
                      PendingCompare(after[j], after[k])

\* C40: two processes subscribed to the same variable deliver the writes
\* and compare-and-swap operations on it in the same order (timestamp, then
\* sender, then message id), invoke the change callback with the same
\* sequence of (old value, new value) pairs and end with the same value; a
\* message is delivered only from the head of the local queue and only
\* when every subscriber has acknowledged it.
DsmTotalOrder ==
    /\ [](sameOrderEverywhere /\ deliveredAcknowledged)
    /\ [][deliveredFromHead]_vars

\* Everything is delivered everywhere, and two operations of different
\* senders with the same timestamp were ordered on a variable all ranks
\* share.
DsmTotalOrderWitness ==
    /\ quiescent
    /\ \A r \in DOMAIN dsm :
          LET d == onVariable(dsm[r].delivered, 0)
          IN  /\ Len(d) = 2
              /\ d[1].timestamp = d[2].timestamp
              /\ d[1].sender # d[2].sender
              /\ CAS \in {d[1].type, d[2].type}

====
